---- MODULE Spec2Model ----
(***************************************************************************)
(* Verification model of the routing testbed (flooding, static SPF and     *)
(* link-state nodes over a publish/subscribe bus).                         *)
(*                                                                         *)
(* The module holds one state machine per subsystem; each has its own      *)
(* specification (SpecFT, SpecSPF, ...).  The variables of the subsystems  *)
(* a specification does not exercise stay at their idle values.            *)
(*                                                                         *)
(* Optional values (Python's None) are sequences of length at most one:    *)
(* << >> is None and <<x>> is the value x.                                 *)
(***************************************************************************)
EXTENDS Integers, Sequences, FiniteSets, TLC

VARIABLES
    \* forwarding primitive (protocols.forward_transform):
    \*   pkt  the packet handed to forward_transform
    \*   self the id of the forwarding node
    \*   out  the result: << >> (None) or <<packet>>
    \*   pc   "ready" before the call, "done" after it
    ft,
    \* shortest-path solver (Dijkstra/node.py, Dijkstra/dijkstra.py):
    \*   G      the loaded graph: node -> (neighbor -> stored weight)
    \*   src    the node computing its table (self.id)
    \*   metric "hop" or "rtt" (the stored-cost mode)
    \*   node   tables of Node._recompute_routes: dist, prev, paths, next_hop
    \*   tab    tables of build_next_hop_table: err, next_hop, dist, paths
    \*   pc     "ready" before the computation, "done" after it
    spf,
    \* duplicate filter (ExpiringSet of protocols.py and of utils.py), both
    \* driven by the same calls:
    \*   now    the clock, in seconds
    \*   pdata  protocols.ExpiringSet._data: key -> time recorded
    \*   udata  utils.ExpiringSet.data: key -> expires_at
    \*   ptrue, utrue  history: key -> time of the last call that returned
    \*          True (protocols / utils)
    \*   last   the last add_if_new call: key, time, both results, and the
    \*          history entries of the key before the call
    dup,
    \* link-state database (LSR/lsr.py LSDB):
    \*   now     the clock, in seconds
    \*   db      LSDB.db: origin -> [seq, links, ts]
    \*   applied history: origin -> greatest seq passed to apply_lsp since
    \*           the origin's entry was created
    \*   last    the last apply_lsp call: origin, seq, links, result and the
    \*           entry of the origin before the call (<< >>: none)
    \*   acc     history: origin -> time of the last LSP apply_lsp accepted
    \*   age     the age_out that has just run: alone or in an SPF run, the
    \*           db and acc before it and the graph the SPF run built
    lsdb,
    \* network of flooding nodes (Flooding/node.py) on the bus
    \* (pend: the publishes a running broadcast of `send` has yet to make):
    \*   now         the clock, in seconds; it stands still, so that every
    \*               delivery falls within the duplicate window
    \*   nbrs        node -> Node.neighbors
    \*   default_ttl node -> Node.default_ttl
    \*   seen        node -> _data of Node.seen
    \*   inbox       node -> packets published to the node's channel and not
    \*               yet handed to _on_packet, oldest first
    \*   sent, inj   number of `send` commands and of copies published by a
    \*               third party
    \*   rcv, dlv, fwd     history: per node, the number of packets with the
    \*               message's msg_id received, of local deliveries and of
    \*               re-broadcasts
    \*   pub         history: the published packets, as [node, kind, ttl, to]
    \*   msg         history: the packet built by the `send` command
    \*   ev          the last _on_packet call: node, whether the node had
    \*               received the msg_id before, whether it delivered and
    \*               whether it published
    fl,
    \* network of static-SPF nodes (Dijkstra/node.py) on the bus: now, seen,
    \* inbox, sent, inj, rcv, dlv, fwd, pub, msg as in fl, and
    \*   G, metric   Node.G and Node.metric, the same at every node
    \*   neighbors   node -> Node.neighbors
    \*   tab         node -> [dist, next_hop, paths] of the node
    \*   default_ttl node -> Node.default_ttl
    \*   ev          the last _on_packet call: node, whether the node had
    \*               received the msg_id before, whether it delivered,
    \*               published, and whether its tables changed
    dj,
    \* network of link-state nodes (LSR/node.py, LSR/lsr.py) exchanging data
    \* messages: nbrs, inbox, sent, inj, rcv, dlv, fwd, pub, msg as in fl, and
    \*   default_ttl node -> Node.default_ttl
    \*   next_hop    node -> LSRRouter.next_hop
    \*   seen_nodes  node -> Node._seen_nodes
    \*   ev          the last _on_packet call: node, whether the node had
    \*               received the msg_id before, whether it delivered,
    \*               published, and whether its table changed
    ls,
    \* link-state control plane of four LSR nodes (LSR/lsr.py, LSR/node.py):
    \*   now      the clock, in seconds
    \*   up       node -> the process runs (the console loop has not raised)
    \*   timer    node -> "run" while the _lsp_loop thread lives, "dead" after
    \*            an exception ended it
    \*   fired    node -> the timer has fired since the clock last advanced
    \*   seq, db, next_hop, dist, seen   node -> LSRRouter.seq, LSDB.db,
    \*            LSRRouter.next_hop, .dist and the data of .seen_lsp_ids
    \*   inbox    node -> packets published to the node and not yet received
    \*   peer     number of advertisements a peer implementation has published
    \*   rp       number of advertisements a peer has published a second time
    \*   hnd      node -> msg_ids of the LSPs handle_lsp went on to apply
    \*   rep      node -> msg_ids handle_lsp went on to apply more than once
    \*   ev       the last originate_lsp or _on_packet call: node, kind,
    \*            the LSP (origin, seq, links as read), the seq stored for the
    \*            origin before the call, whether the LSDB changed, how the
    \*            SPF run ended, whether the call raised, whom it flooded to
    \*            and whether the node had a full table before it
    lc,
    \* receive prologue applied to a raw input (sanitize_incoming of
    \* Dijkstra/protocols.py and of LSR/protocols.py, Dijkstra/node.py
    \* _on_packet):
    \*   raw     the deserialized input
    \*   dj, lsr the result of each sanitize_incoming: << >> (raised) or
    \*           <<packet>>
    \*   djrx    the result of the Dijkstra receive path (headers coerced,
    \*           then sanitize_incoming)
    \*   dj2, lsr2  each sanitize_incoming applied to its own result
    \*   pc      "ready" before the calls, "done" after them
    san,
    \* one lsp/info packet received by an LSR node in its four wire forms
    \* (LSR/node.py _on_packet, LSR/lsr.py _apply_lsp_message):
    \*   origin, seq, m   the advertisement: origin, seq and the links mapping
    \*   prior   the seq stored for the origin before the packet (<< >>: none)
    \*   now     the clock at reception
    \*   stored  form -> the [seq, links] stored for the origin after
    \*           _on_packet received the packet in that form (<< >>: none)
    \*   pc      "ready" before the receptions, "done" after them
    lk,
    \* one broadcast of a flooding node (Flooding/node.py Node.broadcast,
    \* Flooding/transport_redis.py):
    \*   neighbors    Node.neighbors, a list of ids
    \*   channel_map  Node.channel_map: id -> channel, for the ids it names
    \*   exclude      the excluded neighbor id, or None
    \*   published    the channels published to, in order
    \*   pc           "ready" before the broadcast, "done" after it
    bc,
    \* the threads of one LSR node inside the router (LSR/node.py, LSR/lsr.py):
    \*   pc     thread -> where it is: "idle", "load" and "store" (originate_lsp,
    \*          before and after reading self.seq), "apply" (originate_lsp or
    \*          handle_lsp, about to call _apply_lsp_message), "run_spf",
    \*          "flood" (about to call _flood_lsp), "dead" (ended by an exception)
    \*   reg    thread -> the value of self.seq it read
    \*   seq    LSRRouter.seq
    \*   own    the seq of the own LSDB entry of the node (0: none)
    \*   calls  thread -> calls of originate_lsp / handle_lsp completed
    \*   msg    thread -> the seq in the payload of the LSP it built
    \*   sent   the seqs of the originated LSPs, as flooded
    \*   db     the state of the LSDB, as the number of changes applied to it
    \*   g      thread -> the LSDB state whose graph its _run_spf took (0 when
    \*          it is not between graph() and the assignment of the table)
    \*   tab    the LSDB state next_hop, dist and paths were computed from
    \*   raised an SPF run has raised
    mx,
    \* one call of a packet builder (protocols.py, LSR/lsr.py):
    \*   call  the builder called and its headers argument
    \*   from  the id of the calling node
    \*   out   the packet built, as a sequence of length <= 1
    \*   pc    "ready" before the call, "done" after it
    bd,
    \* the timer threads of one node and its shutdown (node.py of the three
    \* engines):
    \*   engine      "flooding", "dijkstra" or "lsr"
    \*   full        lsr: the LSDB lets the SPF run of originate_lsp return
    \*   hello_stop, lsp_stop   the Events _hello_stop and _lsp_stop
    \*   hpc, hi, htick   position of _hello_loop, index of the neighbor it
    \*               serves next, number of its tick
    \*   lpc, ltick, lwoke   position of _lsp_loop, number of its
    \*               originate_lsp call, _lsp_stop as it was at the last wake
    \*   spc         position of _shutdown
    \*   fails       publishes that raised so far
    \*   out         packets published: kind, to, tick, and whether the stop
    \*               flag was set when the loop woke for that tick
    \*   failed      publishes that raised: kind, to, tick
    tm

vars == <<ft, spf, dup, lsdb, fl, dj, ls, lc, san, lk, bc, mx, bd, tm>>

\* ------------------------------------------------------------------------
\* Protocol constants (Dijkstra/protocols.py)
\* ------------------------------------------------------------------------
HEADERS_MAXLEN == 3

TYPE_HELLO == "hello"
TYPE_INFO == "info"
TYPE_LSP == "lsp"
TYPE_MESSAGE == "message"
TYPE_ECHO == "echo"
BROADCAST == "broadcast"

\* ------------------------------------------------------------------------
\* Bounds of the model
\* ------------------------------------------------------------------------
\* largest ttl of a packet handed to forward_transform
MaxTTL == 5
\* longest header list handed to forward_transform (one more than the
\* protocol keeps, so that the truncation is exercised)
MaxHdrLen == 4

\* ------------------------------------------------------------------------
\* Sequence helpers (Python list operations)
\* ------------------------------------------------------------------------
\* s[-n:] for n > 0
LastN(s, n) ==
    IF Len(s) <= n THEN s ELSE SubSeq(s, Len(s) - n + 1, Len(s))

\* x in s
InSeq(x, s) == \E i \in 1..Len(s) : s[i] = x

\* max(a, b)
Max(a, b) == IF a >= b THEN a ELSE b

\* all sequences over S of length at most n
SeqUpTo(S, n) == UNION {[1..k -> S] : k \in 0..n}

\* the elements of a set, in some order
RECURSIVE SetToSeq(_)
SetToSeq(S) ==
    IF S = {} THEN << >>
    ELSE LET x == CHOOSE y \in S : TRUE IN <<x>> \o SetToSeq(S \ {x})

\* F applied to the value of e, computed once (a local that holds a value)
Bind(e, F(_)) == CHOOSE y \in {F(v) : v \in {e}} : TRUE

\* the function f itself, with its values computed once (a dict holds values)
Stored(f) ==
    LET tbl == {<<x, f[x]>> : x \in DOMAIN f}
    IN  [x \in DOMAIN f |-> (CHOOSE p \in tbl : p[1] = x)[2]]

\* ------------------------------------------------------------------------
\* Forwarding primitives (Dijkstra/protocols.py)
\* ------------------------------------------------------------------------
normalize_headers(headers) == LastN(headers, HEADERS_MAXLEN)

\* mutant of rotate_headers: the first element is not removed
rotate_headers_keep_first(headers, self_id, maxlen) ==
    LastN(Append(headers, self_id), maxlen)

\* mutant of rotate_headers: the whole trail is dropped before the append
rotate_headers_drop_all(headers, self_id, maxlen) ==
    LastN(<<self_id>>, maxlen)

rotate_headers(headers, self_id, maxlen) ==
    LET hs  == IF Len(headers) > 0 THEN Tail(headers) ELSE headers
        hs2 == Append(hs, self_id)
    IN  LastN(hs2, maxlen)

should_drop_for_cycle(self_id, headers) == InSeq(self_id, headers)

\* mutant of decrement_ttl: two hops are charged
decrement_ttl_by_two(ttl) == Max(ttl - 2, 0)

decrement_ttl(ttl) == Max(ttl - 1, 0)

forward_transform(pkt, self_id) ==
    IF should_drop_for_cycle(self_id, pkt.headers) THEN << >>
    ELSE LET new_ttl == decrement_ttl(pkt.ttl) IN
         IF new_ttl <= 0 THEN << >>
         ELSE << [pkt EXCEPT !.ttl = new_ttl,
                             !.headers = rotate_headers(pkt.headers, self_id,
                                                        HEADERS_MAXLEN)] >>

\* ------------------------------------------------------------------------
\* Subsystem FT: forward_transform applied to an arbitrary sanitized packet
\* ------------------------------------------------------------------------
FtNodes == {"A", "B", "C"}

FtPackets ==
    [proto   : {"flooding"},
     type    : {TYPE_MESSAGE, TYPE_LSP},
     from    : {"A", "B"},
     to      : {"C", BROADCAST},
     ttl     : (-1)..MaxTTL,
     headers : SeqUpTo(FtNodes, MaxHdrLen),
     payload : {"hello"},
     msg_id  : {"m1"}]

NoPkt == [proto |-> "", type |-> "", from |-> "", to |-> "", ttl |-> 0,
          headers |-> << >>, payload |-> "", msg_id |-> ""]

FtIdle == [pkt |-> NoPkt, self |-> "", out |-> << >>, pc |-> "idle"]

\* one call of forward_transform(pkt, self)
FtCall ==
    /\ ft.pc = "ready"
    /\ ft' = [ft EXCEPT !.out = forward_transform(ft.pkt, ft.self),
                        !.pc = "done"]
    /\ UNCHANGED <<spf, dup, lsdb, fl, dj, ls, lc, san, lk, bc, mx, bd, tm>>

NextFT == FtCall

\* C1: forward_transform returns None iff self_id is in pkt.headers or
\* pkt.ttl - 1 <= 0; otherwise the result has ttl = pkt.ttl - 1, headers =
\* (pkt.headers[1:] + [self_id])[-3:] and every other field as in pkt.
C1_ForwardTransformLaw ==
    ft.pc = "done" =>
        LET dropped == InSeq(ft.self, ft.pkt.headers) \/ ft.pkt.ttl - 1 <= 0
            rest    == IF ft.pkt.headers = << >> THEN << >>
                       ELSE SubSeq(ft.pkt.headers, 2, Len(ft.pkt.headers))
            want    == rest \o <<ft.self>>
        IN  /\ (ft.out = << >>) <=> dropped
            /\ ~dropped =>
                 /\ Len(ft.out) = 1
                 /\ ft.out[1].ttl = ft.pkt.ttl - 1
                 /\ ft.out[1].headers =
                      (IF Len(want) <= 3 THEN want
                       ELSE SubSeq(want, Len(want) - 2, Len(want)))
                 /\ ft.out[1].proto = ft.pkt.proto
                 /\ ft.out[1].type = ft.pkt.type
                 /\ ft.out[1].from = ft.pkt.from
                 /\ ft.out[1].to = ft.pkt.to
                 /\ ft.out[1].payload = ft.pkt.payload
                 /\ ft.out[1].msg_id = ft.pkt.msg_id

\* witness of C1: a forwarded packet whose rotated headers were truncated
C1_Witness ==
    /\ ft.pc = "done"
    /\ ft.out # << >>
    /\ Len(ft.pkt.headers) = 4
    /\ Len(ft.out[1].headers) = 3

\* ------------------------------------------------------------------------
\* Shortest-path solver
\* ------------------------------------------------------------------------
\* float("inf"): larger than the cost of every path of a modelled graph
INF == 1000000

\* Python's None as a predecessor (node ids are non-empty strings)
None == ""

\* the order of node ids as Python compares the strings "A" < "B" < ...
Ord(n) ==
    CASE n = "A" -> 1 [] n = "B" -> 2 [] n = "C" -> 3 [] n = "D" -> 4
      [] n = "E" -> 5 [] OTHER -> 0

\* tuple comparison (d1, u1) <= (d2, u2) of the heap entries
HeapLeq(a, b) == a[1] < b[1] \/ (a[1] = b[1] /\ Ord(a[2]) <= Ord(b[2]))

\* heapq.heappop: the least entry of the queue
HeapMin(pq) == CHOOSE a \in pq : \A b \in pq : HeapLeq(a, b)

\* graph.get(u, {}) : the neighbor map of u, empty when u is no key
Links(G, u) == IF u \in DOMAIN G THEN G[u] ELSE << >>

\* ---- Node._recompute_routes (Dijkstra/node.py) ----
\* cost = 1 if self.metric == "hop" else int(w or 1)
\* mutant of EdgeCost: every edge costs 2
EdgeCostTwo(metric, w) == 2

EdgeCost(metric, w) == IF metric = "hop" THEN 1 ELSE (IF w = 0 THEN 1 ELSE w)

RECURSIVE RecomputeLoop(_, _, _, _, _)
RecomputeLoop(G, metric, dist, prev, pq) ==
    IF pq = {} THEN [dist |-> dist, prev |-> prev]
    ELSE LET top  == HeapMin(pq)
             d    == top[1]
             u    == top[2]
             rest == pq \ {top}
         IN  IF d # dist[u] THEN RecomputeLoop(G, metric, dist, prev, rest)
             ELSE LET nbrs   == Links(G, u)
                      nd(v)  == d + EdgeCost(metric, nbrs[v])
                      better == {v \in DOMAIN nbrs : nd(v) < dist[v]}
                      dist2  == Stored([v \in DOMAIN dist |->
                                   IF v \in better THEN nd(v) ELSE dist[v]])
                      prev2  == Stored([v \in DOMAIN prev |->
                                   IF v \in better THEN u ELSE prev[v]])
                      pq2    == rest \cup {<<nd(v), v>> : v \in better}
                  IN  RecomputeLoop(G, metric, dist2, prev2, pq2)

\* the walk "while cur is not None: path.append(cur); cur = prev[cur]",
\* reversed: the path from the root of the predecessor chain to cur
RECURSIVE PrevChain(_, _)
PrevChain(prev, cur) ==
    IF prev[cur] = None THEN <<cur>>
    ELSE Append(PrevChain(prev, prev[cur]), cur)

recompute_routes(G, src, metric) ==
    LET keys  == DOMAIN G \cup {src}
        dist0 == [n \in keys |-> IF n = src THEN 0 ELSE INF]
        prev0 == [n \in DOMAIN G |-> None]
        r     == RecomputeLoop(G, metric, dist0, prev0, {<<0, src>>})
        dsts  == {dst \in DOMAIN G : dst # src /\ r.dist[dst] # INF}
        paths == [dst \in dsts |->
                    LET path == PrevChain(r.prev, dst)
                    IN  IF path[1] = src THEN <<src>> \o Tail(path) ELSE path]
        nh    == [dst \in {x \in dsts : Len(paths[x]) >= 2} |-> paths[dst][2]]
    IN  [dist |-> r.dist, prev |-> r.prev, paths |-> paths, next_hop |-> nh]

\* ---- shortest_paths (Dijkstra/dijkstra.py) ----
\* The result carries err = TRUE when the Python code raises KeyError:
\* graph[u] for a popped u that is no key, or dist[v] for an edge head v that
\* is no key of dist.
RECURSIVE ShortestLoop(_, _, _, _, _)
ShortestLoop(graph, dist, prev, pq, visited) ==
    IF pq = {} THEN [err |-> FALSE, dist |-> dist, prev |-> prev]
    ELSE LET top  == HeapMin(pq)
             d    == top[1]
             u    == top[2]
             rest == pq \ {top}
         IN  IF u \in visited
             THEN ShortestLoop(graph, dist, prev, rest, visited)
             ELSE IF u \notin DOMAIN graph
             THEN [err |-> TRUE, dist |-> dist, prev |-> prev]
             ELSE IF \E v \in DOMAIN graph[u] : v \notin DOMAIN dist
             THEN [err |-> TRUE, dist |-> dist, prev |-> prev]
             ELSE LET nd(v)  == d + graph[u][v]
                      better == {v \in DOMAIN graph[u] : nd(v) < dist[v]}
                      dist2  == Stored([v \in DOMAIN dist |->
                                   IF v \in better THEN nd(v) ELSE dist[v]])
                      prev2  == Stored([v \in DOMAIN dist |->
                                   IF v \in better THEN u
                                   ELSE IF v \in DOMAIN prev THEN prev[v]
                                   ELSE None])
                      pq2    == rest \cup {<<nd(v), v>> : v \in better}
                  IN  Bind(<<dist2, prev2, pq2>>,
                           LAMBDA t : ShortestLoop(graph, t[1], t[2], t[3],
                                                   visited \cup {u}))

shortest_paths(graph, source) ==
    LET dist0 == [v \in DOMAIN graph \cup {source} |->
                    IF v = source THEN 0 ELSE INF]
        prev0 == [v \in DOMAIN graph |-> None]
    IN  ShortestLoop(graph, dist0, prev0, {<<0, source>>}, {})

\* prev.get(cur)
PrevGet(prev, cur) == IF cur \in DOMAIN prev THEN prev[cur] ELSE None

\* the loop of reconstruct_path: dest, prev[dest], ... up to source or None
RECURSIVE WalkBack(_, _, _)
WalkBack(prev, source, cur) ==
    IF cur = None THEN << >>
    ELSE IF cur = source THEN <<cur>>
    ELSE <<cur>> \o WalkBack(prev, source, PrevGet(prev, cur))

\* list.reverse()
RECURSIVE Reverse(_)
Reverse(s) == IF s = << >> THEN << >> ELSE Append(Reverse(Tail(s)), Head(s))

reconstruct_path(prev, source, dest) ==
    IF source = dest THEN <<source>>
    ELSE LET path == Reverse(WalkBack(prev, source, dest))
         IN  IF path = << >> \/ path[1] # source THEN << >> ELSE path

NextHopTable(graph, source, sp) ==
    LET dests == DOMAIN graph \ {source}
        full  == Stored([dest \in dests |->
                            reconstruct_path(sp.prev, source, dest)])
        nh    == [dest \in {x \in dests : Len(full[x]) >= 2} |-> full[dest][2]]
    IN  IF sp.err
        THEN [err |-> TRUE, next_hop |-> << >>, dist |-> << >>, paths |-> << >>]
        ELSE [err |-> FALSE, next_hop |-> nh, dist |-> sp.dist, paths |-> full]

build_next_hop_table(graph, source) ==
    Bind(shortest_paths(graph, source),
         LAMBDA sp : NextHopTable(graph, source, sp))

\* ---- _ensure_undirected (Dijkstra/config_loader.py) ----
\* every node named as a key or as an edge head becomes a key; a missing
\* reverse edge is added with the weight of the forward edge
ensure_undirected(cfg) ==
    LET heads == UNION {DOMAIN cfg[u] : u \in DOMAIN cfg}
        keys  == DOMAIN cfg \cup heads
        own(v) == IF v \in DOMAIN cfg THEN DOMAIN cfg[v] ELSE {}
        rev(v) == {u \in DOMAIN cfg : v \in DOMAIN cfg[u]}
    IN  [v \in keys |->
           [u \in own(v) \cup rev(v) |->
              IF u \in own(v) THEN cfg[v][u] ELSE cfg[u][v]]]

\* ------------------------------------------------------------------------
\* Subsystem SPF: both solvers applied to a loaded topology
\* ------------------------------------------------------------------------
\* largest stored edge weight of a modelled topology
MaxW == 2

SpfNodes == {"A", "B", "C", "D"}
SpfNodes3 == {"A", "B", "C"}

SpfPairs == {p \in SUBSET SpfNodes : Cardinality(p) = 2}
SpfArcs3 == {a \in SpfNodes3 \X SpfNodes3 : a[1] # a[2]}

\* topology files: four nodes, each link written once (at its smaller end) ...
SpfCfg4(w) ==
    [u \in SpfNodes |->
       [v \in {x \in SpfNodes : Ord(u) < Ord(x) /\ {u, x} \in DOMAIN w} |->
          w[{u, v}]]]

\* ... and three nodes, each direction written (or not) with its own weight
SpfCfg3(w) ==
    [u \in SpfNodes3 |->
       [v \in {x \in SpfNodes3 : <<u, x>> \in DOMAIN w} |-> w[<<u, v>>]]]

\* every choice of the written links and of their weights 0..MaxW
SpfWeights(links) == UNION {[present -> 0..MaxW] : present \in SUBSET links}

SpfGraphs ==
    {ensure_undirected(SpfCfg4(w)) : w \in SpfWeights(SpfPairs)}
    \cup {ensure_undirected(SpfCfg3(w)) : w \in SpfWeights(SpfArcs3)}

SpfIdleTab == [err |-> FALSE, next_hop |-> << >>, dist |-> << >>, paths |-> << >>]
SpfIdleNode == [dist |-> << >>, prev |-> << >>, paths |-> << >>, next_hop |-> << >>]

SpfIdle == [G |-> << >>, src |-> "", metric |-> "", node |-> SpfIdleNode,
            tab |-> SpfIdleTab, pc |-> "idle"]

\* Node._recompute_routes on the loaded graph, and build_next_hop_table on
\* the same graph
SpfRecompute ==
    /\ spf.pc = "ready"
    /\ spf' = [spf EXCEPT
                 !.node = recompute_routes(spf.G, spf.src, spf.metric),
                 !.tab = build_next_hop_table(spf.G, spf.src),
                 !.pc = "done"]
    /\ UNCHANGED <<ft, dup, lsdb, fl, dj, ls, lc, san, lk, bc, mx, bd, tm>>

NextSPF == SpfRecompute

\* ---- reference definitions for the claims (not code) ----
\* least element of a non-empty set of numbers
MinOf(S) == CHOOSE x \in S : \A y \in S : x <= y

\* Bellman-Ford: the least cost of a walk of at most k edges from the source
RECURSIVE RelaxAll(_, _, _)
RelaxAll(WG, D, k) ==
    IF k = 0 THEN D
    ELSE RelaxAll(WG,
           Stored([v \in DOMAIN D |->
              MinOf({D[v]} \cup
                    {D[u] + WG[u][v] :
                       u \in {x \in DOMAIN WG : v \in DOMAIN WG[x] /\ D[x] # INF}})]),
           k - 1)

\* true least path cost from s in the weighted graph WG
TrueDist(WG, s) ==
    Stored(RelaxAll(WG, [v \in DOMAIN WG |-> IF v = s THEN 0 ELSE INF],
                    Cardinality(DOMAIN WG)))

\* the graph with every edge weighted 1
HopGraph(G) == [u \in DOMAIN G |-> [v \in DOMAIN G[u] |-> 1]]

SpfConnected ==
    LET hops == TrueDist(HopGraph(spf.G), spf.src)
    IN  \A v \in DOMAIN spf.G : hops[v] # INF

\* C2: on a connected graph with non-negative stored weights, dist of
\* Node._recompute_routes (stored-cost mode) and of shortest_paths is the
\* true least sum of stored weights; in hop mode it is the least edge count.
C2_DistIsTrueMinimum ==
    (spf.pc = "done" /\ SpfConnected) =>
        LET stored == TrueDist(spf.G, spf.src)
            hops   == TrueDist(HopGraph(spf.G), spf.src)
        IN  /\ ~spf.tab.err
            /\ \A v \in DOMAIN spf.G :
                 /\ spf.tab.dist[v] = stored[v]
                 /\ spf.metric # "hop" => spf.node.dist[v] = stored[v]
                 /\ spf.metric = "hop" => spf.node.dist[v] = hops[v]

\* what the code does satisfy: the same with every stored weight 0 counted
\* as 1 by Node._recompute_routes
SpfOneForZero(G) ==
    [u \in DOMAIN G |-> [v \in DOMAIN G[u] |-> IF G[u][v] = 0 THEN 1 ELSE G[u][v]]]

SpfDistAsCoded ==
    (spf.pc = "done" /\ SpfConnected) =>
        LET stored == TrueDist(spf.G, spf.src)
            coded  == TrueDist(SpfOneForZero(spf.G), spf.src)
            hops   == TrueDist(HopGraph(spf.G), spf.src)
        IN  /\ ~spf.tab.err
            /\ \A v \in DOMAIN spf.G :
                 /\ spf.tab.dist[v] = stored[v]
                 /\ spf.metric # "hop" => spf.node.dist[v] = coded[v]
                 /\ spf.metric = "hop" => spf.node.dist[v] = hops[v]

\* ---- C3 ----
\* sum of the weights of the consecutive edges of a path in WG
RECURSIVE PathCost(_, _)
PathCost(WG, path) ==
    IF Len(path) <= 1 THEN 0
    ELSE WG[path[1]][path[2]] + PathCost(WG, Tail(path))

\* paths.get(v, []) as the console's route command reads it
PathsGet(paths, v) == IF v \in DOMAIN paths THEN paths[v] ELSE << >>

\* the routing table T = (dist, next_hop, paths) of source s is sound for the
\* graph G, the cost of a path being measured in the weighted graph WG
TableSound(G, WG, s, dist, next_hop, paths) ==
    LET hops  == TrueDist(HopGraph(G), s)
        reach == {v \in DOMAIN G : v # s /\ hops[v] # INF}
    IN  /\ DOMAIN next_hop = reach
        /\ \A v \in reach :
             LET path == PathsGet(paths, v)
             IN  /\ next_hop[v] \in DOMAIN G[s]
                 /\ Len(path) >= 2
                 /\ path[1] = s
                 /\ path[Len(path)] = v
                 /\ \A i \in 1..(Len(path) - 1) : path[i + 1] \in DOMAIN G[path[i]]
                 /\ next_hop[v] = path[2]
                 /\ PathCost(WG, path) = dist[v]
        /\ \A v \in (DOMAIN G \ {s}) \ reach : PathsGet(paths, v) = << >>

\* C3: after a table computation from s, next_hop is defined exactly for the
\* reachable destinations other than s; next_hop[v] is a neighbor of s;
\* paths[v] runs from s to v along edges, its second element is next_hop[v]
\* and its cost (stored weights, or edge count in hop mode) is dist[v]; the
\* path of an unreachable destination is empty.
C3_TableSound ==
    spf.pc = "done" =>
        /\ ~spf.tab.err
        /\ TableSound(spf.G, spf.G, spf.src,
                      spf.tab.dist, spf.tab.next_hop, spf.tab.paths)
        /\ TableSound(spf.G,
                      IF spf.metric = "hop" THEN HopGraph(spf.G) ELSE spf.G,
                      spf.src,
                      spf.node.dist, spf.node.next_hop, spf.node.paths)

\* what the code does satisfy: the same, the cost of a path in stored-cost
\* mode counting every stored weight 0 as 1
SpfTableAsCoded ==
    spf.pc = "done" =>
        /\ ~spf.tab.err
        /\ TableSound(spf.G, spf.G, spf.src,
                      spf.tab.dist, spf.tab.next_hop, spf.tab.paths)
        /\ TableSound(spf.G,
                      IF spf.metric = "hop" THEN HopGraph(spf.G)
                      ELSE SpfOneForZero(spf.G),
                      spf.src,
                      spf.node.dist, spf.node.next_hop, spf.node.paths)


\* ------------------------------------------------------------------------
\* Duplicate filter
\* ------------------------------------------------------------------------
\* ExpiringSet(ttl_seconds=60) of the flooding and static-SPF nodes
SEEN_TTL == 60
\* default ttl_seconds of utils.ExpiringSet
UTILS_TTL == 120

\* seconds between two readings of the clock in the model
TimeStep == 20
\* the clock stops here
MaxTime == 200

\* d with d[k] = v (a dict assignment)
DictPut(d, k, v) == [x \in DOMAIN d \cup {k} |-> IF x = k THEN v ELSE d[x]]

\* ---- protocols.ExpiringSet ----
\* _purge: delete the keys with now - ts > ttl
purge(data, now, ttl) ==
    [k \in {x \in DOMAIN data : ~(now - data[x] > ttl)} |-> data[k]]

\* mutant of add_if_new: a repeat refreshes the recorded time
add_if_new_refresh(data, key, now, ttl) ==
    LET d == purge(data, now, ttl)
    IN  [ret |-> key \notin DOMAIN d, data |-> DictPut(d, key, now)]

\* add_if_new: the result and the new _data
\* mutant of add_if_new: a stored key is accepted again
add_if_new_always(data, key, now, ttl) ==
    [ret |-> TRUE, data |-> DictPut(purge(data, now, ttl), key, now)]

add_if_new(data, key, now, ttl) ==
    LET d == purge(data, now, ttl)
    IN  IF key \in DOMAIN d THEN [ret |-> FALSE, data |-> d]
        ELSE [ret |-> TRUE, data |-> DictPut(d, key, now)]

\* ---- utils.ExpiringSet ----
\* _evict: drop the keys with expires_at <= now
evict(data, now) ==
    [k \in {x \in DOMAIN data : ~(data[x] <= now)} |-> data[k]]

\* mutant of utils_add_if_new: a repeat renews expires_at
utils_add_if_new_refresh(data, key, now, ttl) ==
    LET d == evict(data, now)
    IN  [ret |-> key \notin DOMAIN d, data |-> DictPut(d, key, now + ttl)]

utils_add_if_new(data, key, now, ttl) ==
    LET d == evict(data, now)
    IN  IF key \in DOMAIN d THEN [ret |-> FALSE, data |-> d]
        ELSE [ret |-> TRUE, data |-> DictPut(d, key, now + ttl)]

\* ------------------------------------------------------------------------
\* Subsystem DUP: add_if_new calls at non-decreasing times
\* ------------------------------------------------------------------------
DupKeys == {"m1", "m2"}

DupNoCall == [key |-> "", t |-> 0, pret |-> FALSE, uret |-> FALSE,
              pbefore |-> << >>, ubefore |-> << >>]

DupIdle == [now |-> 0, pdata |-> << >>, udata |-> << >>,
            ptrue |-> << >>, utrue |-> << >>, last |-> DupNoCall]

\* time passes
DupTick ==
    /\ dup.now + TimeStep <= MaxTime
    /\ dup' = [dup EXCEPT !.now = dup.now + TimeStep]
    /\ UNCHANGED <<ft, spf, lsdb, fl, dj, ls, lc, san, lk, bc, mx, bd, tm>>

\* the history entry of key k: << >> when k never gave True, else <<time>>
DupBefore(hist, k) == IF k \in DOMAIN hist THEN <<hist[k]>> ELSE << >>

\* one add_if_new(k) on each of the two filters
DupAddIfNew(k) ==
    LET p == add_if_new(dup.pdata, k, dup.now, SEEN_TTL)
        u == utils_add_if_new(dup.udata, k, dup.now, UTILS_TTL)
    IN  /\ dup' = [dup EXCEPT
                     !.pdata = p.data,
                     !.udata = u.data,
                     !.ptrue = IF p.ret THEN DictPut(dup.ptrue, k, dup.now)
                               ELSE dup.ptrue,
                     !.utrue = IF u.ret THEN DictPut(dup.utrue, k, dup.now)
                               ELSE dup.utrue,
                     !.last = [key |-> k, t |-> dup.now,
                               pret |-> p.ret, uret |-> u.ret,
                               pbefore |-> DupBefore(dup.ptrue, k),
                               ubefore |-> DupBefore(dup.utrue, k)]]
        /\ UNCHANGED <<ft, spf, lsdb, fl, dj, ls, lc, san, lk, bc, mx, bd, tm>>

NextDUP == DupTick \/ \E k \in DupKeys : DupAddIfNew(k)

\* the call at time t of a key last accepted at time `before` (<< >>: never)
\* by a filter of window ttl answers as a duplicate filter must
DupAnswerOk(ret, t, before, ttl) ==
    /\ before = << >> => ret
    /\ before # << >> =>
         /\ t - before[1] < ttl => ~ret
         /\ t - before[1] > ttl => ret

\* C4: add_if_new(k) is true iff k was not recorded within the last ttl
\* seconds; k is recorded (with the current time) only by a call that
\* returns true, so a repeat never extends the window; k is accepted again
\* once the window since its recording has elapsed.
C4_DuplicateFilter ==
    /\ dup.last.key # "" =>
         /\ DupAnswerOk(dup.last.pret, dup.last.t, dup.last.pbefore, SEEN_TTL)
         /\ DupAnswerOk(dup.last.uret, dup.last.t, dup.last.ubefore, UTILS_TTL)
    \* what each filter stores is the time of the last call that gave true
    /\ \A k \in DOMAIN dup.pdata :
         k \in DOMAIN dup.ptrue /\ dup.pdata[k] = dup.ptrue[k]
    /\ \A k \in DOMAIN dup.udata :
         k \in DOMAIN dup.utrue /\ dup.udata[k] = dup.utrue[k] + UTILS_TTL

\* witness of C4: a key accepted earlier is accepted again, by both filters,
\* once its window has elapsed
C4_Witness ==
    /\ dup.last.key # ""
    /\ dup.last.pret /\ dup.last.pbefore # << >>
    /\ dup.last.uret /\ dup.last.ubefore # << >>

\* ------------------------------------------------------------------------
\* Link-state database (LSR/lsr.py)
\* ------------------------------------------------------------------------
\* LSRRouter(..., max_age=60.0)
MAX_AGE == 60

\* mutant of apply_lsp: an LSP of equal seq is accepted too
apply_lsp_or_equal(db, origin, seq, links, now) ==
    IF origin \notin DOMAIN db \/ seq >= db[origin].seq
    THEN [ret |-> TRUE,
          db |-> DictPut(db, origin, [seq |-> seq, links |-> links, ts |-> now])]
    ELSE [ret |-> FALSE, db |-> db]

\* LSDB.apply_lsp: the result and the new db
apply_lsp(db, origin, seq, links, now) ==
    IF origin \notin DOMAIN db \/ seq > db[origin].seq
    THEN [ret |-> TRUE,
          db |-> DictPut(db, origin, [seq |-> seq, links |-> links, ts |-> now])]
    ELSE [ret |-> FALSE, db |-> db]

\* an age_out that also drops the entries exactly max_age old
age_out_geq(db, now, max_age) ==
    [o \in {x \in DOMAIN db : ~(now - db[x].ts >= max_age)} |-> db[o]]

\* LSDB.age_out: drop the entries with now - ts > max_age
age_out(db, now, max_age) ==
    [o \in {x \in DOMAIN db : ~(now - db[x].ts > max_age)} |-> db[o]]

\* LSDB.graph: directed, origin -> (neighbor -> cost), one key per entry
graph(db) == [o \in DOMAIN db |-> db[o].links]

\* ------------------------------------------------------------------------
\* Subsystem LSDB: apply_lsp calls and age-outs while time passes
\* ------------------------------------------------------------------------
\* greatest seq of an applied LSP
MaxSeq == 2
\* the clock of this subsystem stops here
LsdbMaxTime == 80

LsdbOrigins == {"A", "B"}
LsdbLinks == {("C" :> 1), ("C" :> 1) @@ ("D" :> 2)}

LsdbNoCall == [origin |-> "", seq |-> 0, links |-> << >>, ret |-> FALSE,
               before |-> << >>]

\* no age_out has just run
LsdbNoAge == [kind |-> "none", before |-> << >>, acc |-> << >>, g |-> << >>]

LsdbIdle == [now |-> 0, db |-> << >>, applied |-> << >>, last |-> LsdbNoCall,
             acc |-> << >>, age |-> LsdbNoAge]

LsdbTick ==
    /\ lsdb.now + TimeStep <= LsdbMaxTime
    /\ lsdb' = [lsdb EXCEPT !.now = lsdb.now + TimeStep, !.last = LsdbNoCall,
                             !.age = LsdbNoAge]
    /\ UNCHANGED <<ft, spf, dup, fl, dj, ls, lc, san, lk, bc, mx, bd, tm>>

\* one call apply_lsp(o, seq, links)
LsdbApply(o, seq, links) ==
    LET r == apply_lsp(lsdb.db, o, seq, links, lsdb.now)
    IN  /\ lsdb' = [lsdb EXCEPT
                      !.db = r.db,
                      !.applied = DictPut(lsdb.applied, o,
                                    IF o \in DOMAIN lsdb.applied
                                    THEN Max(lsdb.applied[o], seq) ELSE seq),
                      !.last = [origin |-> o, seq |-> seq, links |-> links,
                                ret |-> r.ret,
                                before |-> IF o \in DOMAIN lsdb.db
                                           THEN <<lsdb.db[o]>> ELSE << >>],
                      !.acc = IF r.ret THEN DictPut(lsdb.acc, o, lsdb.now)
                              ELSE lsdb.acc,
                      !.age = LsdbNoAge]
        /\ UNCHANGED <<ft, spf, dup, fl, dj, ls, lc, san, lk, bc, mx, bd, tm>>

\* one call age_out(); an origin whose entry is dropped starts a new history
LsdbAgeOut ==
    LET db2 == age_out(lsdb.db, lsdb.now, MAX_AGE)
    IN  /\ lsdb' = [lsdb EXCEPT
                      !.db = db2,
                      !.applied = [o \in DOMAIN db2 |-> lsdb.applied[o]],
                      !.last = LsdbNoCall,
                      !.acc = [o \in DOMAIN db2 |-> lsdb.acc[o]],
                      !.age = [kind |-> "age_out", before |-> lsdb.db,
                               acc |-> lsdb.acc, g |-> << >>]]
        /\ UNCHANGED <<ft, spf, dup, fl, dj, ls, lc, san, lk, bc, mx, bd, tm>>

\* the first two lines of LSRRouter._run_spf: age_out(), then graph()
LsdbRunSpf ==
    LET db2 == age_out(lsdb.db, lsdb.now, MAX_AGE)
    IN  /\ lsdb' = [lsdb EXCEPT
                      !.db = db2,
                      !.applied = [o \in DOMAIN db2 |-> lsdb.applied[o]],
                      !.last = LsdbNoCall,
                      !.acc = [o \in DOMAIN db2 |-> lsdb.acc[o]],
                      !.age = [kind |-> "run_spf", before |-> lsdb.db,
                               acc |-> lsdb.acc, g |-> graph(db2)]]
        /\ UNCHANGED <<ft, spf, dup, fl, dj, ls, lc, san, lk, bc, mx, bd, tm>>

NextLSDB ==
    \/ LsdbTick
    \/ \E o \in LsdbOrigins : \E seq \in 0..MaxSeq : \E links \in LsdbLinks :
         LsdbApply(o, seq, links)
    \/ LsdbAgeOut
    \/ LsdbRunSpf

\* C5: apply_lsp(o, s2, L2) on a stored seq s1 stores L2 and returns true
\* iff s2 > s1 (or no record exists); otherwise it returns false and leaves
\* seq, links and timestamp unchanged.  Hence, with no age-out in between,
\* the stored seq equals the greatest seq applied.
C5_LsdbMonotone ==
    /\ lsdb.last.origin # "" =>
         LET c      == lsdb.last
             stored == lsdb.db[c.origin]
             fresh  == c.before = << >> \/ c.seq > c.before[1].seq
         IN  /\ c.ret <=> fresh
             /\ c.ret => stored = [seq |-> c.seq, links |-> c.links,
                                   ts |-> lsdb.now]
             /\ ~c.ret => stored = c.before[1]
    /\ DOMAIN lsdb.db = DOMAIN lsdb.applied
    /\ \A o \in DOMAIN lsdb.db : lsdb.db[o].seq = lsdb.applied[o]

\* witness of C5: an LSP refused for its older or equal seq, arriving later
\* than the stored one and with other links
C5_Witness ==
    /\ lsdb.last.origin # ""
    /\ ~lsdb.last.ret
    /\ lsdb.last.links # lsdb.db[lsdb.last.origin].links
    /\ lsdb.now > lsdb.db[lsdb.last.origin].ts

\* the origins whose last accepted LSP, by the record acc, is more than
\* MAX_AGE old at the time now
LsdbExpired(acc, now) == {o \in DOMAIN acc : now - acc[o] > MAX_AGE}

\* C32: age_out removes exactly the entries whose last accepted LSP is more
\* than max_age old; the graph() of an SPF run has no origin whose entry is
\* older than max_age and is built from the entries left; a rejected LSP
\* does not refresh the age of an entry
C32_LsdbExpiry ==
    /\ \A o \in DOMAIN lsdb.db : lsdb.db[o].ts = lsdb.acc[o]
    /\ lsdb.age.kind # "none" =>
          /\ DOMAIN lsdb.db =
                DOMAIN lsdb.age.before \ LsdbExpired(lsdb.age.acc, lsdb.now)
          /\ \A o \in DOMAIN lsdb.db : lsdb.db[o] = lsdb.age.before[o]
    /\ lsdb.age.kind = "run_spf" =>
          /\ DOMAIN lsdb.age.g \cap LsdbExpired(lsdb.age.acc, lsdb.now) = {}
          /\ DOMAIN lsdb.age.g = DOMAIN lsdb.db
          /\ \A o \in DOMAIN lsdb.db : lsdb.age.g[o] = lsdb.db[o].links

\* witness of C32: an SPF run at which one entry had expired and left the
\* graph, and another entry was exactly max_age old and stayed in it
C32_Witness ==
    /\ lsdb.age.kind = "run_spf"
    /\ \E o \in DOMAIN lsdb.age.before :
          /\ o \notin DOMAIN lsdb.age.g
          /\ lsdb.age.before[o].seq > 0
    /\ \E o \in DOMAIN lsdb.age.g : lsdb.now - lsdb.acc[o] = MAX_AGE

\* ------------------------------------------------------------------------
\* Packet builders and the bus (Dijkstra/protocols.py, transport_redis.py)
\* ------------------------------------------------------------------------
PROTO_FLOODING == "flooding"
PROTO_DIJKSTRA == "dijkstra"
PROTO_LSR == "lsr"

\* build_packet; msg_id stands for the value of make_msg_id()
build_packet(proto, ptype, from_id, to, ttl, headers, payload, msg_id) ==
    [proto |-> proto, type |-> ptype, from |-> from_id, to |-> to,
     ttl |-> ttl, headers |-> normalize_headers(headers),
     payload |-> payload, msg_id |-> msg_id]

\* new_message called without headers: headers = [self_id]
new_message(self_id, dest_id, data, proto, ttl, msg_id) ==
    build_packet(proto, TYPE_MESSAGE, self_id, dest_id, ttl, <<self_id>>,
                 data, msg_id)

\* the empty object, the payload of a hello
EmptyPayload == "{}"

\* new_hello: to every node, headers = [self_id]
new_hello(self_id, proto, ttl, msg_id) ==
    build_packet(proto, TYPE_HELLO, self_id, BROADCAST, ttl, <<self_id>>,
                 EmptyPayload, msg_id)

\* sanitize_incoming of a packet that has every field
sanitize_incoming(pkt) ==
    [pkt EXCEPT !.headers = normalize_headers(pkt.headers)]

IsRelayed_any(ptype) == TRUE

\* the types _on_packet of the flooding and of the static-SPF node relays:
\* hello returns early, every type but message falls through
IsRelayed(ptype) == ptype = TYPE_MESSAGE

\* headers[-1] if headers else None
LastHop(headers) ==
    IF Len(headers) > 0 THEN headers[Len(headers)] ELSE None

\* RedisTransport.broadcast: one publish to the channel of every neighbor
\* but `exclude`; a channel hands its packets to its node in publish order
broadcast(inbox, neighbors, pkt, exclude) ==
    [n \in DOMAIN inbox |->
        IF n \in neighbors /\ ~(exclude # None /\ n = exclude)
        THEN Append(inbox[n], pkt) ELSE inbox[n]]

\* RedisTransport.publish_packet
publish_packet(inbox, neighbor_id, pkt) ==
    [n \in DOMAIN inbox |->
        IF n = neighbor_id THEN Append(inbox[n], pkt) ELSE inbox[n]]

\* what one handler run put on the bus: the packets the channels hold after it
\* beyond those they held before, each with the node of its channel
Published(before, after) ==
    UNION {{[to |-> n, pkt |-> after[n][i]] :
               i \in (Len(before[n]) + 1)..Len(after[n])} : n \in DOMAIN after}

\* ------------------------------------------------------------------------
\* Subsystem FLOOD: five flooding nodes, one message
\* ------------------------------------------------------------------------
\* --ttl default of the flooding node
FLOOD_DEFAULT_TTL == 6

Nodes == {"A", "B", "C", "D", "E"}

\* the line A-B-C-D-E
LineTopo ==
    [n \in Nodes |->
        {m \in Nodes : Ord(m) = Ord(n) + 1 \/ Ord(m) = Ord(n) - 1}]

\* the ring A-B-C-D-E-A
RingTopo ==
    [n \in Nodes |->
        LineTopo[n] \cup (IF n = "A" THEN {"E"} ELSE {})
                    \cup (IF n = "E" THEN {"A"} ELSE {})]

\* a topology file whose lists are not symmetric: A, B, C point around a
\* one-way triangle, C and D and E form a line
OneWayTopo ==
    [n \in Nodes |->
        CASE n = "A" -> {"B"}
          [] n = "B" -> {"C"}
          [] n = "C" -> {"A", "D"}
          [] n = "D" -> {"C", "E"}
          [] OTHER   -> {"D"}]

FlTopologies == {LineTopo, RingTopo, OneWayTopo}

\* the nodes whose console is used, and the destinations typed
FlSenders == {"A", "C"}
FlDests == {"E", "A"}

\* the values of --ttl the nodes are started with
FlTtls == {0, 1, 2, 4, FLOOD_DEFAULT_TTL}

\* number of copies a third party publishes
MaxInject == 1

FlMsgId == "m1"

\* id of a packet a third party makes up
StrayMsgId == "m2"

\* make_msg_id() of a hello, and the ttl _hello_loop gives it
HelloMsgId == "h1"
HELLO_TTL == 2

FlNoEvent == [node |-> "", dup |-> FALSE, delivered |-> FALSE,
              published |-> FALSE, pkt |-> NoPkt, fresh |-> FALSE, out |-> {}]

FlIdleNet(topo, ttl) ==
    [now |-> 0, nbrs |-> topo,
     default_ttl |-> [n \in Nodes |-> ttl],
     seen |-> [n \in Nodes |-> << >>],
     inbox |-> [n \in Nodes |-> << >>],
     sent |-> 0, inj |-> 0,
     rcv |-> [n \in Nodes |-> 0],
     dlv |-> [n \in Nodes |-> 0],
     fwd |-> [n \in Nodes |-> 0],
     pub |-> {},
     msg |-> NoPkt,
     pend |-> << >>,
     ev |-> FlNoEvent]

FlIdle == FlIdleNet(LineTopo, FLOOD_DEFAULT_TTL)

\* console: send DEST TEXT
FlConsoleSend(n, dest) ==
    LET pkt == new_message(n, dest, "hello", PROTO_FLOODING,
                           fl.default_ttl[n], FlMsgId)
    IN  /\ fl.sent = 0
        /\ fl' = [fl EXCEPT
                    !.inbox = broadcast(fl.inbox, fl.nbrs[n], pkt, None),
                    !.sent = 1,
                    !.msg = pkt,
                    !.pub = fl.pub \cup {[node |-> n, kind |-> "send",
                                          ttl |-> pkt.ttl, to |-> m] :
                                         m \in fl.nbrs[n]},
                    !.ev = FlNoEvent]
        /\ UNCHANGED <<ft, spf, dup, lsdb, dj, ls, lc, san, lk, bc, mx, bd, tm>>

\* _hello_loop of node n: one hello to every neighbor
FlHello(n) ==
    LET pkt == new_hello(n, PROTO_FLOODING, HELLO_TTL, HelloMsgId)
    IN  /\ fl.sent = 0
        /\ fl' = [fl EXCEPT
                    !.inbox = broadcast(fl.inbox, fl.nbrs[n], pkt, None),
                    !.sent = 1,
                    !.msg = pkt,
                    !.pub = fl.pub \cup {[node |-> n, kind |-> "hello",
                                          ttl |-> pkt.ttl, to |-> m] :
                                         m \in fl.nbrs[n]},
                    !.ev = FlNoEvent]
        /\ UNCHANGED <<ft, spf, dup, lsdb, dj, ls, lc, san, lk, bc, mx, bd, tm>>

\* a third party publishes to n's channel a copy, as message or as hello, of
\* the packet at the head of that channel
FlInject(n, ty) ==
    /\ fl.inj < MaxInject
    /\ fl.inbox[n] # << >>
    /\ fl' = [fl EXCEPT
                !.inbox = publish_packet(fl.inbox, n,
                            [Head(fl.inbox[n]) EXCEPT !.type = ty]),
                !.inj = fl.inj + 1,
                !.ev = FlNoEvent]
    /\ UNCHANGED <<ft, spf, dup, lsdb, dj, ls, lc, san, lk, bc, mx, bd, tm>>

\* Node._on_packet of node n on the oldest packet of its channel
FlReceive(n) ==
    /\ fl.inbox[n] # << >>
    /\ LET pkt      == sanitize_incoming(Head(fl.inbox[n]))
           rest     == [fl.inbox EXCEPT ![n] = Tail(fl.inbox[n])]
           mid      == pkt.msg_id
           r        == IF mid # ""
                       THEN add_if_new(fl.seen[n], mid, fl.now, SEEN_TTL)
                       ELSE [ret |-> TRUE, data |-> fl.seen[n]]
           prev_hop == LastHop(pkt.headers)
           fwdp     == forward_transform(pkt, n)
           deliver  == r.ret /\ pkt.type = TYPE_MESSAGE /\ pkt.to = n
           forward  == r.ret /\ IsRelayed(pkt.type) /\ pkt.to # n
                       /\ fwdp # << >>
           targets  == {m \in fl.nbrs[n] : ~(prev_hop # None /\ m = prev_hop)}
       IN  fl' = [fl EXCEPT
                    !.seen[n] = r.data,
                    !.inbox = IF forward
                              THEN broadcast(rest, fl.nbrs[n], fwdp[1], prev_hop)
                              ELSE rest,
                    !.rcv[n] = fl.rcv[n] + 1,
                    !.dlv[n] = fl.dlv[n] + (IF deliver THEN 1 ELSE 0),
                    !.fwd[n] = fl.fwd[n] + (IF forward THEN 1 ELSE 0),
                    !.pub = IF forward
                            THEN fl.pub \cup {[node |-> n, kind |-> "fwd",
                                               ttl |-> fwdp[1].ttl, to |-> m] :
                                              m \in targets}
                            ELSE fl.pub,
                    !.ev = [node |-> n, dup |-> fl.rcv[n] > 0,
                            delivered |-> deliver,
                            published |-> forward /\ targets # {},
                            pkt |-> Head(fl.inbox[n]), fresh |-> r.ret,
                            out |-> IF forward
                                    THEN Published(rest,
                                           broadcast(rest, fl.nbrs[n], fwdp[1],
                                                     prev_hop))
                                    ELSE {}]]
    /\ UNCHANGED <<ft, spf, dup, lsdb, dj, ls, lc, san, lk, bc, mx, bd, tm>>

\* a third party publishes to n's channel a packet with an id of its own: a
\* copy, of any type, of the packet at the head of that channel
FlStray(n, ty) ==
    /\ fl.inj < MaxInject
    /\ fl.inbox[n] # << >>
    /\ fl' = [fl EXCEPT
                !.inbox = publish_packet(fl.inbox, n,
                            [Head(fl.inbox[n]) EXCEPT !.type = ty,
                                                      !.msg_id = StrayMsgId]),
                !.inj = fl.inj + 1,
                !.ev = FlNoEvent]
    /\ UNCHANGED <<ft, spf, dup, lsdb, dj, ls, lc, san, lk, bc, mx, bd, tm>>

NextFlood ==
    \/ \E n \in FlSenders : \E dest \in FlDests : FlConsoleSend(n, dest)
    \/ \E n \in Nodes : \E ty \in {TYPE_MESSAGE, TYPE_HELLO} : FlInject(n, ty)
    \/ \E n \in Nodes : FlReceive(n)

\* the flooding network with packets of every type on the bus
NextFloodAny ==
    \/ NextFlood
    \/ \E n \in Nodes :
         \E ty \in {TYPE_MESSAGE, TYPE_HELLO, TYPE_LSP, TYPE_INFO} : FlStray(n, ty)

\* a third party publishes to n's channel a copy of the packet at the head of
\* that channel whose msg_id field is present and empty (JSON "" or null:
\* both are false in `if mid and ...`)
FlAnon(n) ==
    /\ fl.inj < MaxInject
    /\ fl.inbox[n] # << >>
    /\ fl' = [fl EXCEPT
                !.inbox = publish_packet(fl.inbox, n,
                            [Head(fl.inbox[n]) EXCEPT !.msg_id = ""]),
                !.inj = fl.inj + 1,
                !.ev = FlNoEvent]
    /\ UNCHANGED <<ft, spf, dup, lsdb, dj, ls, lc, san, lk, bc, mx, bd, tm>>

\* the flooding network with a packet without id on the bus
NextFloodAnon ==
    \/ NextFlood
    \/ \E n \in Nodes : FlAnon(n)

\* the last receive let its packet through to the type dispatch
FlDispatched ==
    /\ fl.ev.node # ""
    /\ fl.ev.fresh

\* C38: in the flooding and static-SPF nodes every packet that passes
\* sanitization and reaches the type dispatch has had its msg_id checked
\* against and recorded in the duplicate filter, packets whose msg_id is
\* present but empty or null included
C38_DispatchRecorded ==
    FlDispatched => fl.ev.pkt.msg_id \in DOMAIN fl.seen[fl.ev.node]

\* what the code does: a packet with a non-empty msg_id is recorded before the
\* dispatch, and a packet with an empty one is dispatched without touching
\* the filter
FlDispatchAsCoded ==
    FlDispatched =>
        IF fl.ev.pkt.msg_id # ""
        THEN fl.ev.pkt.msg_id \in DOMAIN fl.seen[fl.ev.node]
        ELSE "" \notin DOMAIN fl.seen[fl.ev.node]

\* the packet without id was relayed by a node that had relayed the message
\* before, and the destination delivered the payload a second time
FlAnonDelivered ==
    /\ FlDispatched
    /\ fl.ev.pkt.msg_id = ""
    /\ fl.ev.delivered
    /\ fl.dlv[fl.ev.node] = 2
    /\ \E n \in Nodes : fl.fwd[n] = 2

\* no packet is waiting in any channel
FlQuiet == \A n \in Nodes : fl.inbox[n] = << >>

\* number of re-broadcasts in the system
FlTotalFwd ==
    fl.fwd["A"] + fl.fwd["B"] + fl.fwd["C"] + fl.fwd["D"] + fl.fwd["E"]

\* C7: in the flooding engine, whatever the topology, the initial TTL and
\* the order of deliveries within the duplicate window, each node
\* re-broadcasts the msg_id at most once, the number of re-broadcasts in the
\* system is bounded (by the number of nodes), and once the message is sent
\* a state with no copy in flight is eventually reached.
C7_FloodTerminates ==
    /\ [](/\ \A n \in Nodes : fl.fwd[n] <= 1
          /\ FlTotalFwd <= Cardinality(Nodes))
    /\ ((fl.sent = 1 /\ ~FlQuiet) ~> FlQuiet)

\* witness of C7: the flood has ended after a node refused a second copy and
\* at least three nodes re-broadcast
C7_Witness ==
    /\ fl.sent = 1
    /\ FlQuiet
    /\ FlTotalFwd >= 3
    /\ \E n \in Nodes : fl.rcv[n] >= 2 /\ fl.fwd[n] = 1

\* `send E ...` typed at A on the line, the nodes started with --ttl T
FlLineScenario(T) ==
    /\ fl.nbrs = LineTopo
    /\ fl.sent = 1
    /\ fl.msg.from = "A"
    /\ fl.msg.to = "E"
    /\ fl.msg.ttl = T

\* number of hops between two nodes of the line
LineHops(n, m) == IF Ord(n) >= Ord(m) THEN Ord(n) - Ord(m) ELSE Ord(m) - Ord(n)

\* C9: flooding on the line A-B-C-D-E with ttl=4: `send E hello` at A is
\* delivered at E exactly once (and eventually), each of B, C and D receives
\* and forwards the message, and no node forwards the msg_id twice.
C9_FloodLineCoverage ==
    /\ [](FlLineScenario(4) =>
            /\ fl.dlv["E"] <= 1
            /\ \A n \in Nodes \ {"E"} : fl.dlv[n] = 0
            /\ \A n \in Nodes : fl.fwd[n] <= 1
            /\ FlQuiet =>
                 /\ fl.dlv["E"] = 1
                 /\ \A n \in {"B", "C", "D"} : fl.rcv[n] >= 1 /\ fl.fwd[n] = 1)
    /\ (FlLineScenario(4) ~> (FlQuiet /\ fl.dlv["E"] = 1))

\* witness of C9: the ttl=4 flood on the line has ended, E has delivered, and
\* a second copy was published on the way
C9_Witness ==
    /\ FlLineScenario(4)
    /\ FlQuiet
    /\ fl.dlv["E"] = 1
    /\ fl.inj = 1

\* the ttl=2 scenario: A publishes with ttl=2, B forwards with ttl=1, C
\* publishes nothing, D and E receive nothing
FlLineTtl2 ==
    FlLineScenario(2) =>
        /\ \A p \in fl.pub :
              /\ p.node = "A" => p.kind = "send" /\ p.ttl = 2
              /\ p.node = "B" => p.kind = "fwd" /\ p.ttl = 1
              /\ p.node \in {"A", "B"}
        /\ fl.fwd["C"] = 0
        /\ fl.rcv["D"] = 0
        /\ fl.rcv["E"] = 0
        /\ fl.dlv["E"] = 0
        /\ FlQuiet => fl.fwd["B"] = 1 /\ fl.rcv["C"] >= 1

\* C10: flooding on the line with ttl=2: A publishes with ttl=2, B forwards
\* with ttl=1, C's forward_transform returns None so C publishes nothing, D
\* and E never receive the message and E does not deliver.  In general, on a
\* line, a message sent with initial ttl T is never received by a node more
\* than T hops from the sender.
C10_FloodLineTtl ==
    /\ FlLineTtl2
    /\ (fl.nbrs = LineTopo /\ fl.sent = 1) =>
          \A n \in Nodes :
             fl.rcv[n] > 0 => LineHops(n, fl.msg.from) <= fl.msg.ttl

\* what the code does for C10: the bound of T hops holds for T >= 1 only; a
\* message sent with ttl <= 0 is still published to the sender's neighbors
FlLineTtlAsCoded ==
    /\ FlLineTtl2
    /\ (fl.nbrs = LineTopo /\ fl.sent = 1) =>
          \A n \in Nodes :
             fl.rcv[n] > 0 => LineHops(n, fl.msg.from) <= Max(fl.msg.ttl, 1)

\* the flooding node of the last receive got a packet of type ty that is no
\* duplicate, is not addressed to it and that forward_transform accepts
FlRelayCase(ty) ==
    /\ fl.ev.node # ""
    /\ fl.ev.fresh
    /\ fl.ev.pkt.type = ty
    /\ fl.ev.pkt.to # fl.ev.node
    /\ forward_transform(sanitize_incoming(fl.ev.pkt), fl.ev.node) # << >>

\* the transformed packet on the channel of every neighbor but the previous
\* hop, the last element of the headers of the received packet
FlFlooded ==
    LET n   == fl.ev.node
        fwd == forward_transform(sanitize_incoming(fl.ev.pkt), n)[1]
    IN  fl.ev.out = {[to |-> m, pkt |-> fwd] :
                        m \in fl.nbrs[n] \ {LastHop(fl.ev.pkt.headers)}}

\* what the code does for C23 when every node runs in id mode: a non-duplicate
\* message for another node, which forward_transform accepts, goes to the
\* inbox of every configured neighbor except the previous hop
FlFloodedAsCoded ==
    FlRelayCase(TYPE_MESSAGE) =>
        /\ FlFlooded
        /\ \A o \in fl.ev.out : o.to # LastHop(fl.ev.pkt.headers)

\* C24: a flooding node forwards a received non-duplicate lsp or info packet
\* exactly as a message: forward_transform, then broadcast to all neighbors
\* except the previous hop
C24_ControlFlooded ==
    \A ty \in {TYPE_LSP, TYPE_INFO} : FlRelayCase(ty) => FlFlooded

\* what the code does for C24: a packet that is neither hello nor message is
\* ignored, nothing is published
FlControlAsCoded ==
    \A ty \in {TYPE_LSP, TYPE_INFO, TYPE_HELLO} :
        (fl.ev.node # "" /\ fl.ev.pkt.type = ty) => fl.ev.out = {}

\* ------------------------------------------------------------------------
\* The flood with the publishes of the sender taken one at a time: the
\* broadcast of `send` is a loop of publishes, and the other nodes, which are
\* other processes, receive and relay while it runs
\* ------------------------------------------------------------------------
\* a triangle A, B, C with the tail C-D-E
KiteTopo ==
    [n \in Nodes |->
        CASE n = "A" -> {"B", "C"}
          [] n = "B" -> {"A", "C"}
          [] n = "C" -> {"A", "B", "D"}
          [] n = "D" -> {"C", "E"}
          [] OTHER   -> {"D"}]

FlStepTopologies == {LineTopo, RingTopo, KiteTopo}
FlStepTtls == {1, 2, 3, FLOOD_DEFAULT_TTL}
FlStepDests == {"D", "E"}

\* console: send DEST TEXT, up to the first publish: the packet is built and
\* the channels of the neighbors wait in the order the loop will take them
FlSendBegin(n, dest, backwards) ==
    LET pkt   == new_message(n, dest, "hello", PROTO_FLOODING,
                             fl.default_ttl[n], FlMsgId)
        order == IF backwards THEN Reverse(SetToSeq(fl.nbrs[n]))
                 ELSE SetToSeq(fl.nbrs[n])
    IN  /\ fl.sent = 0
        /\ backwards => Cardinality(fl.nbrs[n]) > 1
        /\ fl' = [fl EXCEPT
                    !.sent = 1,
                    !.msg = pkt,
                    !.pend = [i \in 1..Len(order) |-> [to |-> order[i], pkt |-> pkt]],
                    !.ev = FlNoEvent]
        /\ UNCHANGED <<ft, spf, dup, lsdb, dj, ls, lc, san, lk, bc, mx, bd, tm>>

\* the next publish of the broadcast loop
FlPublishNext ==
    /\ fl.pend # << >>
    /\ fl' = [fl EXCEPT
                !.inbox = publish_packet(fl.inbox, Head(fl.pend).to,
                                         Head(fl.pend).pkt),
                !.pend = Tail(fl.pend),
                !.pub = fl.pub \cup {[node |-> fl.msg.from, kind |-> "send",
                                      ttl |-> Head(fl.pend).pkt.ttl,
                                      to |-> Head(fl.pend).to]},
                !.ev = FlNoEvent]
    /\ UNCHANGED <<ft, spf, dup, lsdb, dj, ls, lc, san, lk, bc, mx, bd, tm>>

NextFloodStep ==
    \/ \E dest \in FlStepDests : \E backwards \in BOOLEAN :
          FlSendBegin("A", dest, backwards)
    \/ FlPublishNext
    \/ \E n \in Nodes : FlReceive(n)

\* the nodes within k hops of the nodes S
RECURSIVE Ball(_, _, _)
Ball(topo, S, k) ==
    IF k = 0 THEN S
    ELSE Ball(topo, S \cup UNION {topo[n] : n \in S}, k - 1)

\* the hop distance from s to d in a connected topology
HopDistance(topo, s, d) ==
    CHOOSE k \in 0..Cardinality(Nodes) :
        /\ d \in Ball(topo, {s}, k)
        /\ k > 0 => d \notin Ball(topo, {s}, k - 1)

\* the flood of the message has ended
FlStepDone == fl.sent = 1 /\ fl.pend = << >> /\ FlQuiet

\* the initial ttl of the message covers the hop distance to its destination
FlTtlCovers ==
    fl.msg.ttl >= HopDistance(fl.nbrs, fl.msg.from, fl.msg.to)

\* C35: flooding over any connected topology and any interleaving of the
\* deliveries: a message sent with an initial ttl of at least the hop
\* distance to its destination is delivered there exactly once
C35_FloodDelivers ==
    /\ fl.sent = 1 => fl.dlv[fl.msg.to] <= 1
    /\ (FlStepDone /\ FlTtlCovers) => fl.dlv[fl.msg.to] = 1

\* what the code does: never two deliveries; on the line and on the ring the
\* message arrives; on the kite it arrives when the ttl exceeds the hop
\* distance by one or more, and with ttl = hop distance it is lost when a
\* node of the shortest path first took the copy that came the long way
FlDeliversAsCoded ==
    /\ fl.sent = 1 => fl.dlv[fl.msg.to] <= 1
    /\ (FlStepDone /\ FlTtlCovers /\ fl.dlv[fl.msg.to] = 0) =>
          /\ fl.nbrs = KiteTopo
          /\ fl.msg.ttl = HopDistance(fl.nbrs, fl.msg.from, fl.msg.to)
          /\ fl.rcv["C"] = 2

\* the node that issued `send` has not re-broadcast its own message
FlOriginatorSilent == fl.sent = 1 => fl.fwd[fl.msg.from] = 0

\* what the code does: `send` does not record the msg_id in the duplicate
\* filter, so the first copy that returns is new to the sender, which relays
\* it once, to every neighbor but the one that returned it
FlOriginatorAsCoded ==
    /\ fl.sent = 1 => fl.fwd[fl.msg.from] <= 1
    /\ (fl.ev.node # "" /\ fl.ev.node = fl.msg.from /\ fl.ev.published) =>
          /\ fl.ev.fresh
          /\ {o.to : o \in fl.ev.out} =
                fl.nbrs[fl.ev.node] \ {LastHop(fl.ev.pkt.headers)}

\* trails of two and of three hops
FlTrails == {<<"E", "D">>, <<"E", "D", "C">>}

\* the nodes whose channel the third party publishes to
FlTrailTargets == {"B", "C"}

\* a third party publishes to n's channel a packet with an id of its own and a
\* trail of several hops: a copy of the packet at the head of that channel
FlTrail(n, h) ==
    /\ fl.inj < MaxInject
    /\ fl.inbox[n] # << >>
    /\ fl' = [fl EXCEPT
                !.inbox = publish_packet(fl.inbox, n,
                            [Head(fl.inbox[n]) EXCEPT !.headers = h,
                                                      !.msg_id = StrayMsgId]),
                !.inj = fl.inj + 1,
                !.ev = FlNoEvent]
    /\ UNCHANGED <<ft, spf, dup, lsdb, dj, ls, lc, san, lk, bc, mx, bd, tm>>

NextFloodTrail ==
    \/ NextFloodStep
    \/ \E n \in FlTrailTargets : \E h \in FlTrails : FlTrail(n, h)

\* the packets of the message typed at the console (built by new_message with
\* headers [from]) that wait in the channel of node m
FlOriginated(m) ==
    {fl.inbox[m][i] : i \in {j \in 1..Len(fl.inbox[m]) :
                                fl.inbox[m][j].msg_id = FlMsgId}}

FlTrailRotated ==
    /\ fl.ev.node # ""
    /\ fl.ev.published
    /\ Len(fl.ev.pkt.headers) = HEADERS_MAXLEN
    /\ \E o \in fl.ev.out :
          o.pkt.headers = <<fl.ev.pkt.headers[2], fl.ev.pkt.headers[3],
                            fl.ev.node>>

\* ------------------------------------------------------------------------
\* Subsystem DIJK: five static-SPF nodes, one message
\* ------------------------------------------------------------------------
\* --ttl default of the static-SPF node
DIJKSTRA_DEFAULT_TTL == 8

\* topology files: the unit-weight line A-B-C-D-E, each link written once,
LineCfg ==
    [n \in Nodes |-> [m \in {x \in Nodes : Ord(x) = Ord(n) + 1} |-> 1]]

\* the unit-weight ring, and the ring whose link A-E weighs 3
RingCfg(w) ==
    [n \in Nodes |->
        IF n = "A" THEN ("B" :> 1) @@ ("E" :> w) ELSE LineCfg[n]]

DjGraphs ==
    {ensure_undirected(LineCfg), ensure_undirected(RingCfg(1)),
     ensure_undirected(RingCfg(3))}

DjTtls == {2, DIJKSTRA_DEFAULT_TTL}
DjSenders == {"A", "C"}
DjDests == {"E", "A"}

DjNoEvent == [node |-> "", dup |-> FALSE, delivered |-> FALSE,
              published |-> FALSE, changed |-> FALSE,
              pkt |-> NoPkt, fresh |-> FALSE, out |-> {}]

\* load_neighbors_only
load_neighbors_only(G, node_id) ==
    IF node_id \in DOMAIN G THEN DOMAIN G[node_id] ELSE {}

\* Node.__init__ of every node: tables from _recompute_routes
DjIdleNet(G, metric, ttl) ==
    [now |-> 0, G |-> G, metric |-> metric,
     neighbors |-> [n \in Nodes |-> load_neighbors_only(G, n)],
     tab |-> [n \in Nodes |->
                LET r == recompute_routes(G, n, metric)
                IN  [dist |-> r.dist, next_hop |-> r.next_hop,
                     paths |-> r.paths]],
     default_ttl |-> [n \in Nodes |-> ttl],
     seen |-> [n \in Nodes |-> << >>],
     inbox |-> [n \in Nodes |-> << >>],
     sent |-> 0, inj |-> 0,
     rcv |-> [n \in Nodes |-> 0],
     dlv |-> [n \in Nodes |-> 0],
     fwd |-> [n \in Nodes |-> 0],
     pub |-> {},
     msg |-> NoPkt,
     ev |-> DjNoEvent]

DjIdle == DjIdleNet(ensure_undirected(LineCfg), "hop", DIJKSTRA_DEFAULT_TTL)

DjNextHop_any(n, dest) ==
    IF dest \in DOMAIN dj.tab[n].next_hop THEN dj.tab[n].next_hop[dest]
    ELSE IF dj.neighbors[n] # {} THEN CHOOSE m \in dj.neighbors[n] : TRUE
    ELSE None

\* self.next_hop.get(dest), then the direct-neighbor fallback; None: no route
DjNextHop(n, dest) ==
    LET nh == IF dest \in DOMAIN dj.tab[n].next_hop
              THEN dj.tab[n].next_hop[dest] ELSE None
    IN  IF nh = None /\ dest \in dj.neighbors[n] THEN dest ELSE nh

\* console: send DEST TEXT (Node._send_data)
DjConsoleSend(n, dest) ==
    LET pkt == new_message(n, dest, "hello", PROTO_DIJKSTRA,
                           dj.default_ttl[n], FlMsgId)
        nh  == DjNextHop(n, dest)
    IN  /\ dj.sent = 0
        /\ dj' = [dj EXCEPT
                    !.inbox = IF nh # None
                              THEN publish_packet(dj.inbox, nh, pkt)
                              ELSE dj.inbox,
                    !.sent = 1,
                    !.msg = pkt,
                    !.pub = IF nh # None
                            THEN dj.pub \cup {[node |-> n, kind |-> "send",
                                               ttl |-> pkt.ttl, to |-> nh]}
                            ELSE dj.pub,
                    !.ev = DjNoEvent]
        /\ UNCHANGED <<ft, spf, dup, lsdb, fl, ls, lc, san, lk, bc, mx, bd, tm>>

\* the packet on the channel of every node of the sequence s
RECURSIVE SendEach(_, _, _)
SendEach(inbox, s, pkt) ==
    IF s = << >> THEN inbox
    ELSE SendEach(publish_packet(inbox, Head(s), pkt), Tail(s), pkt)

\* _hello_loop of node n: one hello, sent to each neighbor in turn
DjHello(n) ==
    LET pkt == new_hello(n, PROTO_DIJKSTRA, HELLO_TTL, HelloMsgId)
    IN  /\ dj.sent = 0
        /\ dj' = [dj EXCEPT
                    !.inbox = SendEach(dj.inbox, SetToSeq(dj.neighbors[n]), pkt),
                    !.sent = 1,
                    !.msg = pkt,
                    !.pub = dj.pub \cup {[node |-> n, kind |-> "hello",
                                          ttl |-> pkt.ttl, to |-> m] :
                                         m \in dj.neighbors[n]},
                    !.ev = DjNoEvent]
        /\ UNCHANGED <<ft, spf, dup, lsdb, fl, ls, lc, san, lk, bc, mx, bd, tm>>

\* values typed after `ttl` at the console
DjTtlInputs == {-1, 1}

\* console `ttl N`: default_ttl = int(N), any integer
DjConsoleTtl(n, N) ==
    /\ dj.sent = 0
    /\ dj.default_ttl[n] # N
    /\ dj' = [dj EXCEPT !.default_ttl[n] = N, !.ev = DjNoEvent]
    /\ UNCHANGED <<ft, spf, dup, lsdb, fl, ls, lc, san, lk, bc, mx, bd, tm>>

\* a third party publishes to n's channel a copy, of any type, of the packet
\* at the head of that channel
DjInject(n, ty) ==
    /\ dj.inj < MaxInject
    /\ dj.inbox[n] # << >>
    /\ dj' = [dj EXCEPT
                !.inbox = publish_packet(dj.inbox, n,
                            [Head(dj.inbox[n]) EXCEPT !.type = ty]),
                !.inj = dj.inj + 1,
                !.ev = DjNoEvent]
    /\ UNCHANGED <<ft, spf, dup, lsdb, fl, ls, lc, san, lk, bc, mx, bd, tm>>

\* Node._on_packet of node n on the oldest packet of its channel
DjReceive(n) ==
    /\ dj.inbox[n] # << >>
    /\ LET pkt     == sanitize_incoming(Head(dj.inbox[n]))
           rest    == [dj.inbox EXCEPT ![n] = Tail(dj.inbox[n])]
           mid     == pkt.msg_id
           r       == IF mid # ""
                      THEN add_if_new(dj.seen[n], mid, dj.now, SEEN_TTL)
                      ELSE [ret |-> TRUE, data |-> dj.seen[n]]
           nh      == DjNextHop(n, pkt.to)
           fwdp    == forward_transform(pkt, n)
           deliver == r.ret /\ pkt.type = TYPE_MESSAGE /\ pkt.to = n
           forward == r.ret /\ IsRelayed(pkt.type) /\ pkt.to # n
                      /\ nh # None /\ fwdp # << >>
           tab2    == dj.tab[n]
       IN  dj' = [dj EXCEPT
                    !.seen[n] = r.data,
                    !.inbox = IF forward
                              THEN publish_packet(rest, nh, fwdp[1])
                              ELSE rest,
                    !.tab[n] = tab2,
                    !.rcv[n] = dj.rcv[n] + 1,
                    !.dlv[n] = dj.dlv[n] + (IF deliver THEN 1 ELSE 0),
                    !.fwd[n] = dj.fwd[n] + (IF forward THEN 1 ELSE 0),
                    !.pub = IF forward
                            THEN dj.pub \cup {[node |-> n, kind |-> "fwd",
                                               ttl |-> fwdp[1].ttl, to |-> nh]}
                            ELSE dj.pub,
                    !.ev = [node |-> n, dup |-> dj.rcv[n] > 0,
                            delivered |-> deliver,
                            published |-> forward,
                            changed |-> tab2 # dj.tab[n],
                            pkt |-> Head(dj.inbox[n]), fresh |-> r.ret,
                            out |-> IF forward
                                    THEN Published(rest,
                                           publish_packet(rest, nh, fwdp[1]))
                                    ELSE {}]]
    /\ UNCHANGED <<ft, spf, dup, lsdb, fl, ls, lc, san, lk, bc, mx, bd, tm>>

\* a destination no topology file names
DjUnknown == "Z"

\* a third party publishes to n's channel a packet with an id of its own: a
\* copy, of any type and for any destination, of the packet at the head of
\* that channel
DjStray(n, ty, dest) ==
    /\ dj.inj < MaxInject
    /\ dj.inbox[n] # << >>
    /\ dj' = [dj EXCEPT
                !.inbox = publish_packet(dj.inbox, n,
                            [Head(dj.inbox[n]) EXCEPT !.type = ty,
                                                      !.to = dest,
                                                      !.msg_id = StrayMsgId]),
                !.inj = dj.inj + 1,
                !.ev = DjNoEvent]
    /\ UNCHANGED <<ft, spf, dup, lsdb, fl, ls, lc, san, lk, bc, mx, bd, tm>>

NextDijk ==
    \/ \E n \in DjSenders : \E N \in DjTtlInputs : DjConsoleTtl(n, N)
    \/ \E n \in DjSenders : \E dest \in DjDests : DjConsoleSend(n, dest)
    \/ \E n \in Nodes : \E ty \in {TYPE_MESSAGE, TYPE_HELLO, TYPE_LSP} :
         DjInject(n, ty)
    \/ \E n \in Nodes : DjReceive(n)

\* the static-SPF network with packets of every type, for known and unknown
\* destinations, on the bus
NextDijkAny ==
    \/ NextDijk
    \/ \E n \in Nodes :
         \E ty \in {TYPE_MESSAGE, TYPE_HELLO, TYPE_LSP, TYPE_INFO} :
            \E dest \in {"E", DjUnknown} : DjStray(n, ty, dest)

DjQuiet == \A n \in Nodes : dj.inbox[n] = << >>

\* the static-SPF node of the last receive got a message that is no duplicate
\* and is not addressed to it
DjRelayCase ==
    /\ dj.ev.node # ""
    /\ dj.ev.fresh
    /\ dj.ev.pkt.type = TYPE_MESSAGE
    /\ dj.ev.pkt.to # dj.ev.node

\* C22: a static-SPF node that receives a non-duplicate message for another
\* node sends it to next_hop[to] when that exists, else to `to` when `to` is
\* a configured neighbor, else publishes nothing; with a next hop resolved it
\* publishes forward_transform of the packet, once and to that next hop only,
\* unless forward_transform returns None
C22_NextHopRelay ==
    DjRelayCase =>
        LET n   == dj.ev.node
            to  == dj.ev.pkt.to
            nh  == IF to \in DOMAIN dj.tab[n].next_hop
                   THEN <<dj.tab[n].next_hop[to]>>
                   ELSE IF to \in dj.neighbors[n] THEN <<to>> ELSE << >>
            fwd == forward_transform(sanitize_incoming(dj.ev.pkt), n)
        IN  dj.ev.out = IF nh = << >> \/ fwd = << >> THEN {}
                        ELSE {[to |-> nh[1], pkt |-> fwd[1]]}

\* a relay that forwarded to a next hop that is not the destination
C22_Witness ==
    /\ DjRelayCase
    /\ \E o \in dj.ev.out : o.to # dj.ev.pkt.to /\ o.pkt.ttl = dj.ev.pkt.ttl - 1

\* a relay without a route, and a relay whose packet forward_transform refuses
C22_WitnessDrop ==
    /\ DjRelayCase
    /\ dj.ev.out = {}
    /\ dj.ev.pkt.to = DjUnknown

\* `send E hello` typed at A on the line, the nodes started with the default
\* --ttl
DjLineScenario ==
    /\ dj.G = ensure_undirected(LineCfg)
    /\ dj.sent = 1
    /\ dj.msg.from = "A"
    /\ dj.msg.to = "E"
    /\ dj.msg.ttl = DIJKSTRA_DEFAULT_TTL

\* C8: static SPF on the unit-weight line A-B-C-D-E: after startup A's table
\* holds for E next-hop B, cost 4 and path A,B,C,D,E; `send E hello` at A
\* with the default TTL is relayed hop by hop, E delivers it exactly once
\* (and eventually), and no other node delivers it.
C8_StaticLineDelivery ==
    /\ [](/\ dj.G = ensure_undirected(LineCfg) =>
               /\ "E" \in DOMAIN dj.tab["A"].next_hop
               /\ dj.tab["A"].next_hop["E"] = "B"
               /\ dj.tab["A"].dist["E"] = 4
               /\ dj.tab["A"].paths["E"] = <<"A", "B", "C", "D", "E">>
          /\ DjLineScenario =>
               /\ dj.dlv["E"] <= 1
               /\ \A n \in Nodes \ {"E"} : dj.dlv[n] = 0
               /\ \A p \in dj.pub : LineHops(p.node, p.to) = 1
               /\ DjQuiet =>
                    /\ dj.dlv["E"] = 1
                    /\ \A n \in {"B", "C", "D"} : dj.fwd[n] = 1)
    /\ (DjLineScenario ~> (DjQuiet /\ dj.dlv["E"] = 1))

\* witness of C8: the message sent at A on the line has been delivered at E
\* after three relays, and nothing is in flight
C8_Witness ==
    /\ DjLineScenario
    /\ DjQuiet
    /\ dj.dlv["E"] = 1
    /\ dj.fwd["B"] + dj.fwd["C"] + dj.fwd["D"] = 3

\* REQUIRED_FIELDS
PacketFields ==
    {"proto", "type", "from", "to", "ttl", "headers", "payload", "msg_id"}

\* the packets published to a channel and not yet received
DjWire ==
    UNION {{dj.inbox[n][i] : i \in 1..Len(dj.inbox[n])} : n \in Nodes}

\* C13: every packet a node publishes has all required fields, ttl >= 0, at
\* most three headers and a msg_id, whatever was received and typed before,
\* `ttl N` for any integer N followed by `send` included
C13_PublishedWellFormed ==
    /\ \A pkt \in DjWire :
          /\ DOMAIN pkt = PacketFields
          /\ pkt.ttl >= 0
          /\ Len(pkt.headers) <= HEADERS_MAXLEN
          /\ pkt.msg_id # ""
    /\ \A p \in dj.pub : p.ttl >= 0

\* what the code does: the shape is kept, and a negative ttl is on the wire
\* only in the packet `send` built from a negative default_ttl (and in the
\* copies a third party made of it)
DjPublishedAsCoded ==
    /\ \A pkt \in DjWire :
          /\ DOMAIN pkt = PacketFields
          /\ Len(pkt.headers) <= HEADERS_MAXLEN
          /\ pkt.msg_id # ""
          /\ pkt.ttl < 0 => /\ pkt.ttl \in DjTtlInputs
                            /\ pkt.ttl = dj.msg.ttl
                            /\ pkt.headers = dj.msg.headers
    /\ \A p \in dj.pub : p.ttl < 0 => p.kind = "send"

\* the number of hops of the route the tables give from n to dest: the chain
\* of next hops, followed for at most k steps (0 when the chain does not end
\* at dest)
RECURSIVE DjRouteHops(_, _, _)
DjRouteHops(n, dest, k) ==
    IF n = dest THEN 0
    ELSE IF k = 0 \/ DjNextHop(n, dest) = None THEN 0 - Cardinality(Nodes)
    ELSE 1 + DjRouteHops(DjNextHop(n, dest), dest, k - 1)

\* `send` was typed once, for a destination the sender's table reaches
DjSentReachable ==
    /\ dj.sent = 1
    /\ dj.msg.to \in DOMAIN dj.tab[dj.msg.from].next_hop

\* every publish of the message moved it to a node strictly closer to the
\* destination, no node relayed it twice, the sender never relayed it, and
\* only the destination delivered it, at most once
DjLoopFree ==
    DjSentReachable =>
        /\ \A p \in dj.pub :
              dj.tab[p.to].dist[dj.msg.to] < dj.tab[p.node].dist[dj.msg.to]
        /\ \A n \in Nodes : dj.fwd[n] <= 1
        /\ dj.fwd[dj.msg.from] = 0
        /\ dj.fwd[dj.msg.to] = 0
        /\ dj.dlv[dj.msg.to] <= 1
        /\ \A n \in Nodes \ {dj.msg.to} : dj.dlv[n] = 0

\* C36: static SPF, all nodes loaded with the same symmetrized graph and
\* metric: a message from s to a reachable d is never forwarded in a loop,
\* each relay moves it strictly closer to d, it visits no node twice, and it
\* is delivered at d exactly once if and only if the initial ttl is at least
\* the number of hops of the route
C36_LoopFreeDelivery ==
    /\ DjLoopFree
    /\ (DjSentReachable /\ DjQuiet) =>
          (dj.dlv[dj.msg.to] = 1 <=>
             dj.msg.ttl >= DjRouteHops(dj.msg.from, dj.msg.to,
                                       Cardinality(Nodes)))

\* what the code does: the route is loop free, and the message is delivered
\* exactly when the ttl covers the route or the destination is the sender's
\* next hop (send publishes without looking at the ttl, and a delivery does
\* not look at it either)
DjDeliveryAsCoded ==
    /\ DjLoopFree
    /\ (DjSentReachable /\ DjQuiet) =>
          LET h == DjRouteHops(dj.msg.from, dj.msg.to, Cardinality(Nodes))
          IN  /\ h >= 1
              /\ dj.dlv[dj.msg.to] = 1 <=> (dj.msg.ttl >= h \/ h = 1)

\* the same rule of one header in the static-SPF engine: the packets of the
\* message typed at the console carry on every hop the one header of the node
\* that published them
DjOneHeader ==
    /\ \A pkt \in DjWire :
          pkt.msg_id = FlMsgId => Len(pkt.headers) = 1
    /\ \A m \in Nodes :
          (dj.inbox[m] # << >> /\ Head(dj.inbox[m]).msg_id = FlMsgId) =>
             Head(dj.inbox[m]).headers[1] \in dj.neighbors[m]
    /\ (dj.ev.node # "" /\ dj.ev.published) =>
          \A o \in dj.ev.out : o.pkt.headers = <<dj.ev.node>>

\* a message that was relayed twice and delivered, nothing in flight
DjRelayedDelivered ==
    /\ DjSentReachable /\ DjQuiet
    /\ dj.dlv[dj.msg.to] = 1
    /\ Cardinality({n \in Nodes : dj.fwd[n] = 1}) >= 2

\* a message whose ttl was smaller than the route and that a relay dropped
DjRelayDropped ==
    /\ DjSentReachable /\ DjQuiet
    /\ dj.dlv[dj.msg.to] = 0
    /\ dj.msg.ttl >= 1
    /\ dj.msg.ttl < DjRouteHops(dj.msg.from, dj.msg.to, Cardinality(Nodes))

\* ------------------------------------------------------------------------
\* Subsystem LSRNET: five link-state nodes relaying one data message.  The
\* packets on this bus are the message and hello packets.  A headers value
\* on this bus is tagged: k = "dict" for the JSON object {trail, last_hop}
\* that LSRRouter.on_receive publishes, k = "list" for the array (under
\* trail) that the packet builders make.
\* ------------------------------------------------------------------------
\* Node.default_ttl of the link-state node
LSR_DEFAULT_TTL == 8

LsNoEvent == [node |-> "", dup |-> FALSE, delivered |-> FALSE,
              published |-> FALSE, changed |-> FALSE,
              pkt |-> NoPkt, fresh |-> FALSE, out |-> {}]

LsIdleNet(topo) ==
    [nbrs |-> topo,
     default_ttl |-> [n \in Nodes |-> LSR_DEFAULT_TTL],
     next_hop |-> [n \in Nodes |-> << >>],
     seen_nodes |-> [n \in Nodes |-> {n}],
     inbox |-> [n \in Nodes |-> << >>],
     sent |-> 0, inj |-> 0,
     rcv |-> [n \in Nodes |-> 0],
     dlv |-> [n \in Nodes |-> 0],
     fwd |-> [n \in Nodes |-> 0],
     pub |-> {},
     msg |-> NoPkt,
     ev |-> LsNoEvent]

LsIdle == LsIdleNet(LineTopo)

\* sanitize_incoming of LSR/protocols.py: the headers become the array
\* itself, or the list under "trail" of a mapping, cut to the last 3
lsr_sanitize_incoming(pkt) ==
    [pkt EXCEPT !.headers = normalize_headers(pkt.headers.trail)]

\* headers_to_dict of an array
headers_to_dict(h) == [k |-> "dict", trail |-> h]

\* sorted(nbs)[0]
FirstSorted(S) == CHOOSE x \in S : \A y \in S : Ord(x) <= Ord(y)

\* a router that takes every trail naming self_id for a cycle, whether or not
\* the message came over the bus
router_on_message_trail(self_id, neighbors, next_hop, msg, incoming_neighbor) ==
    LET dest  == msg.to
        nh1   == IF dest \in DOMAIN next_hop THEN next_hop[dest] ELSE None
        nh2   == IF nh1 = None /\ dest \in neighbors THEN dest ELSE nh1
        nbs   == {n \in neighbors : n # incoming_neighbor}
        nh    == IF nh2 = None /\ nbs # {} THEN FirstSorted(nbs) ELSE nh2
        trail == msg.headers.trail
        fwd   == [msg EXCEPT
                    !.ttl = msg.ttl - 1,
                    !.headers = [k |-> "dict",
                                 trail |-> LastN(Append(trail, self_id), 3),
                                 last_hop |-> self_id]]
    IN  IF dest = self_id THEN [act |-> "deliver", nh |-> None, pkt |-> msg]
        ELSE IF msg.ttl <= 0 \/ nh = None \/ InSeq(self_id, trail)
             THEN [act |-> "drop", nh |-> None, pkt |-> msg]
        ELSE [act |-> "send", nh |-> nh, pkt |-> fwd]

\* LSRRouter.on_receive for a packet of type message whose headers are the
\* mapping [trail |-> ...]: what the router does, and the packet it sends
router_on_message(self_id, neighbors, next_hop, msg, incoming_neighbor) ==
    LET dest  == msg.to
        ttl   == msg.ttl
        nh1   == IF dest \in DOMAIN next_hop THEN next_hop[dest] ELSE None
        nh2   == IF nh1 = None /\ dest \in neighbors THEN dest ELSE nh1
        nbs   == {n \in neighbors : n # incoming_neighbor}
        nh    == IF nh2 = None /\ nbs # {} THEN FirstSorted(nbs) ELSE nh2
        trail == msg.headers.trail
        fwd   == [msg EXCEPT
                    !.ttl = ttl - 1,
                    !.headers = [k |-> "dict",
                                 trail |-> LastN(Append(trail, self_id), 3),
                                 last_hop |-> self_id]]
    IN  IF dest = self_id THEN [act |-> "deliver", nh |-> None, pkt |-> msg]
        ELSE IF ttl <= 0 THEN [act |-> "drop", nh |-> None, pkt |-> msg]
        ELSE IF nh = None THEN [act |-> "drop", nh |-> None, pkt |-> msg]
        ELSE IF incoming_neighbor # None /\ InSeq(self_id, trail)
             THEN [act |-> "drop", nh |-> None, pkt |-> msg]
        ELSE [act |-> "send", nh |-> nh, pkt |-> fwd]

\* console: send DEST TEXT (Node._send_data): the router gets the new
\* message with headers {"trail": [self_id]} and no incoming neighbor
LsConsoleSend(n, dest) ==
    LET wire == new_message(n, dest, "hello", PROTO_LSR, ls.default_ttl[n],
                            FlMsgId)
        rtr  == [wire EXCEPT !.headers = headers_to_dict(wire.headers)]
        r    == router_on_message(n, ls.nbrs[n], ls.next_hop[n], rtr, None)
    IN  /\ ls.sent = 0
        /\ ls' = [ls EXCEPT
                    !.inbox = IF r.act = "send"
                              THEN publish_packet(ls.inbox, r.nh, r.pkt)
                              ELSE ls.inbox,
                    !.sent = 1,
                    !.msg = wire,
                    !.dlv[n] = ls.dlv[n] + (IF r.act = "deliver" THEN 1 ELSE 0),
                    !.pub = IF r.act = "send"
                            THEN ls.pub \cup {[node |-> n, kind |-> "send",
                                               ttl |-> r.pkt.ttl, to |-> r.nh]}
                            ELSE ls.pub,
                    !.ev = LsNoEvent]
        /\ UNCHANGED <<ft, spf, dup, lsdb, fl, dj, lc, san, lk, bc, mx, bd, tm>>

\* values typed after `ttl` at the console of a link-state node
LsTtlInputs == {1, 2}

\* console `ttl N`: default_ttl = int(N)
LsConsoleTtl(n, N) ==
    /\ ls.sent = 0
    /\ ls.default_ttl[n] = LSR_DEFAULT_TTL
    /\ ls' = [ls EXCEPT !.default_ttl[n] = N, !.ev = LsNoEvent]
    /\ UNCHANGED <<ft, spf, dup, lsdb, fl, dj, lc, san, lk, bc, mx, bd, tm>>

\* _hello_loop of node n: one hello, sent to each neighbor in turn
LsHello(n) ==
    LET pkt  == new_hello(n, PROTO_LSR, HELLO_TTL, HelloMsgId)
        wire == [pkt EXCEPT !.headers = [k |-> "list", trail |-> pkt.headers]]
    IN  /\ ls.sent = 0
        /\ ls' = [ls EXCEPT
                    !.inbox = SendEach(ls.inbox, SetToSeq(ls.nbrs[n]), wire),
                    !.sent = 1,
                    !.msg = pkt,
                    !.pub = ls.pub \cup {[node |-> n, kind |-> "hello",
                                          ttl |-> pkt.ttl, to |-> m] :
                                         m \in ls.nbrs[n]},
                    !.ev = LsNoEvent]
        /\ UNCHANGED <<ft, spf, dup, lsdb, fl, dj, lc, san, lk, bc, mx, bd, tm>>

\* a third party publishes to n's channel a copy, as message or as hello, of
\* the packet at the head of that channel
LsInject(n, ty) ==
    /\ ls.inj < MaxInject
    /\ ls.inbox[n] # << >>
    /\ ls' = [ls EXCEPT
                !.inbox = publish_packet(ls.inbox, n,
                            [Head(ls.inbox[n]) EXCEPT !.type = ty]),
                !.inj = ls.inj + 1,
                !.ev = LsNoEvent]
    /\ UNCHANGED <<ft, spf, dup, lsdb, fl, dj, lc, san, lk, bc, mx, bd, tm>>

\* Node._on_packet of node n on the oldest packet of its channel, a message
\* or a hello
LsReceive(n) ==
    /\ ls.inbox[n] # << >>
    /\ LET pkt      == lsr_sanitize_incoming(Head(ls.inbox[n]))
           rest     == [ls.inbox EXCEPT ![n] = Tail(ls.inbox[n])]
           last_hop == LastHop(pkt.headers)
           rtr      == [pkt EXCEPT !.headers = headers_to_dict(pkt.headers)]
           r        == IF pkt.type = TYPE_MESSAGE
                       THEN router_on_message(n, ls.nbrs[n], ls.next_hop[n],
                                              rtr, last_hop)
                       ELSE [act |-> "drop", nh |-> None, pkt |-> rtr]
           table2   == ls.next_hop[n]
       IN  ls' = [ls EXCEPT
                    !.seen_nodes[n] = ls.seen_nodes[n] \cup {pkt.from},
                    !.inbox = IF r.act = "send"
                              THEN publish_packet(rest, r.nh, r.pkt)
                              ELSE rest,
                    !.next_hop[n] = table2,
                    !.rcv[n] = ls.rcv[n] + 1,
                    !.dlv[n] = ls.dlv[n] + (IF r.act = "deliver" THEN 1 ELSE 0),
                    !.fwd[n] = ls.fwd[n] + (IF r.act = "send" THEN 1 ELSE 0),
                    !.pub = IF r.act = "send"
                            THEN ls.pub \cup {[node |-> n, kind |-> "fwd",
                                               ttl |-> r.pkt.ttl, to |-> r.nh]}
                            ELSE ls.pub,
                    !.ev = [node |-> n, dup |-> ls.rcv[n] > 0,
                            delivered |-> r.act = "deliver",
                            published |-> r.act = "send",
                            changed |-> table2 # ls.next_hop[n],
                            pkt |-> Head(ls.inbox[n]), fresh |-> TRUE,
                            out |-> IF r.act = "send"
                                    THEN Published(rest,
                                           publish_packet(rest, r.nh, r.pkt))
                                    ELSE {}]]
    /\ UNCHANGED <<ft, spf, dup, lsdb, fl, dj, lc, san, lk, bc, mx, bd, tm>>

NextLsr ==
    \/ \E n \in FlSenders : \E N \in LsTtlInputs : LsConsoleTtl(n, N)
    \/ \E n \in FlSenders : \E dest \in FlDests : LsConsoleSend(n, dest)
    \/ \E n \in Nodes : \E ty \in {TYPE_MESSAGE, TYPE_HELLO} : LsInject(n, ty)
    \/ \E n \in Nodes : LsReceive(n)

\* ------------------------------------------------------------------------
\* Duplicates in the three engines
\* ------------------------------------------------------------------------
\* the last packet handled was a second copy and caused nothing
QuietDuplicate(ev) ==
    (ev.node # "" /\ ev.dup) => ~ev.delivered /\ ~ev.published

\* C6: in each of the three engines, a packet of any type whose msg_id the
\* node has already accepted within the duplicate window is dropped: no
\* local delivery, no publish to any neighbor, no change of routing state.
C6_DuplicateDropped ==
    /\ QuietDuplicate(fl.ev)
    /\ QuietDuplicate(dj.ev) /\ (dj.ev.dup => ~dj.ev.changed)
    /\ QuietDuplicate(ls.ev) /\ (ls.ev.dup => ~ls.ev.changed)

\* what the code does for C6: the flooding and the static-SPF nodes drop the
\* second copy; the link-state node has no filter for data messages
DuplicateDroppedAsCoded ==
    /\ QuietDuplicate(fl.ev)
    /\ QuietDuplicate(dj.ev) /\ (dj.ev.dup => ~dj.ev.changed)
    /\ (ls.ev.node # "" /\ ls.ev.dup) => ~ls.ev.changed

\* C26: no engine, when relaying a received message, lsp or info packet,
\* publishes a packet whose ttl is <= 0: a packet whose ttl - 1 <= 0 is
\* dropped at the relaying node
C26_NoExpiredRelay ==
    /\ \A p \in fl.pub : p.kind = "fwd" => p.ttl > 0
    /\ \A p \in dj.pub : p.kind = "fwd" => p.ttl > 0
    /\ \A p \in ls.pub : p.kind = "fwd" => p.ttl > 0

\* what the code does for C26: forward_transform keeps the flooding and the
\* static-SPF relay from publishing ttl <= 0; the link-state router drops a
\* message only when the ttl it received is <= 0, and relays ttl 1 as ttl 0
RelayTtlAsCoded ==
    /\ \A p \in fl.pub : p.kind = "fwd" => p.ttl > 0
    /\ \A p \in dj.pub : p.kind = "fwd" => p.ttl > 0
    /\ \A p \in ls.pub : p.kind = "fwd" => p.ttl >= 0

\* the last packet handled was a message for another node
LsCycleCase ==
    /\ ls.ev.node # ""
    /\ ls.ev.pkt.type = TYPE_MESSAGE
    /\ ls.ev.pkt.to # ls.ev.node

\* the trail of that packet after sanitize_incoming
LsEvTrail == lsr_sanitize_incoming(ls.ev.pkt).headers

\* node n has somewhere to send a message for dest that came from incoming
LsHasHop(n, dest, incoming) ==
    \/ dest \in DOMAIN ls.next_hop[n]
    \/ dest \in ls.nbrs[n]
    \/ ls.nbrs[n] \ {incoming} # {}

\* C29: a message for another node is discarded for a cycle exactly when its
\* trail already contains self_id and it came over the bus: a bus-received
\* message whose sanitized trail contains self_id is never forwarded, any
\* other one with ttl > 0 and a next hop is forwarded, and the message typed
\* at the console, whose headers are [self_id], is never discarded by the
\* cycle check
C29_CycleRule ==
    /\ LsCycleCase =>
          /\ InSeq(ls.ev.node, LsEvTrail) => ls.ev.out = {}
          /\ ( /\ ~InSeq(ls.ev.node, LsEvTrail)
               /\ ls.ev.pkt.ttl > 0
               /\ LsHasHop(ls.ev.node, ls.ev.pkt.to, LastHop(LsEvTrail)) )
             => ls.ev.out # {}
    /\ ( /\ ls.msg.type = TYPE_MESSAGE
         /\ ls.msg.to # ls.msg.from
         /\ ls.msg.ttl > 0
         /\ LsHasHop(ls.msg.from, ls.msg.to, None) )
       => /\ ls.msg.headers = <<ls.msg.from>>
          /\ \E p \in ls.pub : p.kind = "send" /\ p.node = ls.msg.from

\* a node got back over the bus a message it had already relayed, could have
\* sent it on, and discarded it
C29_Witness ==
    /\ LsCycleCase
    /\ InSeq(ls.ev.node, LsEvTrail)
    /\ ls.ev.pkt.ttl > 0
    /\ LsHasHop(ls.ev.node, ls.ev.pkt.to, LastHop(LsEvTrail))
    /\ ls.ev.out = {}
    /\ \E p \in ls.pub : p.kind = "send" /\ p.node = ls.msg.from

\* the packets published to a channel and not yet received
LsWire ==
    UNION {{ls.inbox[n][i] : i \in 1..Len(ls.inbox[n])} : n \in Nodes}

\* C17: every packet an engine publishes carries `headers` as an array,
\* never as an object
C17_HeadersArray == \A pkt \in LsWire : pkt.headers.k # "dict"

\* what the code does: every data message the link-state router publishes
\* carries the object {trail, last_hop}, last_hop being the publisher
LsHeadersAsCoded ==
    \A pkt \in LsWire :
        /\ pkt.headers.k = "dict"
        /\ pkt.headers.trail # << >>
        /\ pkt.headers.last_hop = pkt.headers.trail[Len(pkt.headers.trail)]

\* ------------------------------------------------------------------------
\* Keep-alives in the three engines
\* ------------------------------------------------------------------------
\* the hello loops and the receivers of the three networks
NextHello ==
    \/ \E n \in Nodes : FlHello(n)
    \/ \E n \in Nodes : DjHello(n)
    \/ \E n \in Nodes : LsHello(n)
    \/ \E n \in Nodes : FlReceive(n)
    \/ \E n \in Nodes : DjReceive(n)
    \/ \E n \in Nodes : LsReceive(n)

\* the node of the last receive got a hello and published nothing
QuietHello(ev) == (ev.node # "" /\ ev.pkt.type = TYPE_HELLO) => ev.out = {}

\* C25: in all three node supervisors, receiving a hello never causes a
\* publish on the bus, and in the static SPF node it leaves dist, next_hop
\* and paths unchanged
C25_HelloNotRelayed ==
    /\ QuietHello(fl.ev)
    /\ QuietHello(dj.ev)
    /\ QuietHello(ls.ev)
    /\ (dj.ev.node # "" /\ dj.ev.pkt.type = TYPE_HELLO) => ~dj.ev.changed
    /\ (dj.ev.node # "" /\ dj.ev.pkt.type = TYPE_HELLO) =>
          Bind(recompute_routes(dj.G, dj.ev.node, dj.metric),
               LAMBDA r : /\ dj.tab[dj.ev.node].dist = r.dist
                          /\ dj.tab[dj.ev.node].next_hop = r.next_hop
                          /\ dj.tab[dj.ev.node].paths = r.paths)

\* the node of the last receive got, for the first time, the hello of another
\* node
HelloSeen(ev) ==
    /\ ev.node # "" /\ ev.fresh
    /\ ev.pkt.type = TYPE_HELLO /\ ev.pkt.from # ev.node

\* a node of each engine has received the hello of a neighbor
C25_Witness ==
    /\ HelloSeen(fl.ev) /\ HelloSeen(dj.ev) /\ HelloSeen(ls.ev)
    /\ fl.rcv[fl.ev.node] = 1 /\ dj.rcv[dj.ev.node] = 1

\* ------------------------------------------------------------------------
\* Subsystem LSRCTL: the link-state control plane of four LSR nodes on the
\* line A-B, B-C, C-D (LSR/lsr.py, LSR/node.py)
\* ------------------------------------------------------------------------
\* ttl of an originated LSP
LSP_TTL == 16

\* ttl of the info packets of a peer implementation (DEFAULT_TTL_INFO)
PEER_INFO_TTL == 5

LcNodes == {"A", "B", "C", "D"}

\* the topology file: node -> neighbors
LcTopo ==
    [n \in LcNodes |->
        CASE n = "A" -> {"B"}
          [] n = "B" -> {"A", "C"}
          [] n = "C" -> {"B", "D"}
          [] OTHER   -> {"C"}]

\* the clock advances LcMaxTicks times by LcTimeStep; lsp_interval (10 s) is
\* shorter than a step, so a running LSP timer fires within every step
LcTimeStep == 35
LcMaxTicks == 2

\* int(time.time()) when the clock of the model reads `now`
LcEpoch == 1000
UnixTime(now) == LcEpoch + now

\* console `lsp` commands are accepted while the node's seq is below this
LcMaxSeq == 2

\* nodes whose console issues `lsp`, and nodes a peer implementation
\* publishes to
LcConsoleNodes == {"A"}
LcPeerTargets == {"A"}

\* a `links` value of a payload is [shape, m]: shape "list" is an array of
\* {to, cost} objects, shape "map" an object {id: cost}; m is the mapping the
\* value denotes
LinksList(m) == [shape |-> "list", m |-> m]
LinksMap(m) == [shape |-> "map", m |-> m]

\* _normalize_links_any_to_list: both shapes become the array of {to, cost}
normalize_links_any_to_list(links) == LinksList(links.m)

\* the dict comprehension of _apply_lsp_message: over an array it collects
\* the {to, cost} items; over an object it iterates the keys, and no node id
\* contains the substring "to", so nothing is collected
LinksOfPayload(links) ==
    IF links.shape = "list" THEN links.m ELSE << >>

\* mutant of LinksOfPayload: the object is read as the mapping it denotes
LinksOfPayloadAnyShape(links) == links.m

\* LSRRouter._apply_lsp_message
apply_lsp_message(db, payload, now) ==
    apply_lsp(db, payload.origin, payload.seq, LinksOfPayload(payload.links), now)

\* LSRRouter._run_spf: age_out, graph, build_next_hop_table; err is the
\* KeyError of the solver, raised after age_out has changed the database
run_spf(db, self_id, now) ==
    Bind(age_out(db, now, MAX_AGE),
         LAMBDA db2 : [db |-> db2,
                       tab |-> build_next_hop_table(graph(db2), self_id)])

\* the payload seq as _convert_lsp_to_info_wire and the info branch of
\* _on_packet read it: `seq or int(time.time())`
SeqOrTime(seq, now) == IF seq # 0 THEN seq ELSE UnixTime(now)

\* Node._convert_lsp_to_info_wire: the info packet that goes on the wire
convert_lsp_to_info_wire(self_id, pkt, now) ==
    [proto |-> PROTO_LSR, type |-> TYPE_INFO, from |-> self_id,
     to |-> BROADCAST, ttl |-> pkt.ttl, headers |-> <<self_id>>,
     payload |-> [origin |-> pkt.payload.origin,
                  seq |-> SeqOrTime(pkt.payload.seq, now),
                  links |-> LinksMap(normalize_links_any_to_list(pkt.payload.links).m)],
     msg_id |-> pkt.msg_id]

\* LSRRouter._flood_lsp through Node.send_direct: the inboxes after the
\* flood of msg by self_id to every neighbor but exclude
flood_lsp(inbox, self_id, neighbors, msg, exclude, now) ==
    IF msg.ttl <= 0 THEN inbox
    ELSE LET fwd == [msg EXCEPT !.ttl = msg.ttl - 1]
         IN  broadcast(inbox, neighbors,
                       convert_lsp_to_info_wire(self_id, fwd, now), exclude)

\* who _flood_lsp sends to
FloodTargets(neighbors, msg, exclude) ==
    IF msg.ttl <= 0 THEN {} ELSE {nb \in neighbors : nb # exclude}

\* the router's state of one node, as originate_lsp and handle_lsp use it
LcRouter(n, s) ==
    [seq |-> s.seq[n], db |-> s.db[n], next_hop |-> s.next_hop[n],
     dist |-> s.dist[n], seen |-> s.seen[n]]

\* LSRRouter.originate_lsp; raised: the KeyError of _run_spf left the call
\* before _flood_lsp
OriginateResult(r, inbox, self_id, neighbors, now, msg, a, sp) ==
    IF ~a.ret
    THEN [r |-> [r EXCEPT !.seq = msg.payload.seq], raised |-> FALSE,
          spf |-> "none", dup |-> FALSE, changed |-> FALSE,
          to |-> FloodTargets(neighbors, msg, None),
          inbox |-> flood_lsp(inbox, self_id, neighbors, msg, None, now)]
    ELSE IF sp.tab.err
    THEN [r |-> [r EXCEPT !.seq = msg.payload.seq, !.db = sp.db],
          raised |-> TRUE, spf |-> "err", dup |-> FALSE, changed |-> TRUE,
          to |-> {}, inbox |-> inbox]
    ELSE [r |-> [r EXCEPT !.seq = msg.payload.seq, !.db = sp.db,
                          !.next_hop = sp.tab.next_hop, !.dist = sp.tab.dist],
          raised |-> FALSE, spf |-> "ok", dup |-> FALSE, changed |-> TRUE,
          to |-> FloodTargets(neighbors, msg, None),
          inbox |-> flood_lsp(inbox, self_id, neighbors, msg, None, now)]

originate_lsp(r, inbox, self_id, neighbors, now) ==
    LET seq2    == r.seq + 1
        payload == [origin |-> self_id, seq |-> seq2,
                    links |-> LinksList([nb \in neighbors |-> 1])]
        msg     == [proto |-> PROTO_LSR, type |-> TYPE_LSP, from |-> self_id,
                    to |-> "*", ttl |-> LSP_TTL, headers |-> << >>,
                    payload |-> payload,
                    msg_id |-> [o |-> self_id, s |-> seq2, by |-> self_id]]
    IN  Bind(apply_lsp_message(r.db, payload, now),
             LAMBDA a :
                Bind(run_spf(a.db, self_id, now),
                     LAMBDA sp : OriginateResult(r, inbox, self_id, neighbors,
                                                 now, msg, a, sp)))

\* LSRRouter.handle_lsp
HandleResult(r1, inbox, self_id, neighbors, msg, incoming_neighbor, now, a, sp) ==
    IF ~a.ret
    THEN [r |-> r1, raised |-> FALSE, spf |-> "none", dup |-> FALSE,
          changed |-> FALSE,
          to |-> FloodTargets(neighbors, msg, incoming_neighbor),
          inbox |-> flood_lsp(inbox, self_id, neighbors, msg,
                              incoming_neighbor, now)]
    ELSE IF sp.tab.err
    THEN [r |-> [r1 EXCEPT !.db = sp.db], raised |-> TRUE, spf |-> "err",
          dup |-> FALSE, changed |-> TRUE, to |-> {}, inbox |-> inbox]
    ELSE [r |-> [r1 EXCEPT !.db = sp.db, !.next_hop = sp.tab.next_hop,
                           !.dist = sp.tab.dist],
          raised |-> FALSE, spf |-> "ok", dup |-> FALSE, changed |-> TRUE,
          to |-> FloodTargets(neighbors, msg, incoming_neighbor),
          inbox |-> flood_lsp(inbox, self_id, neighbors, msg,
                              incoming_neighbor, now)]

handle_lsp(r, inbox, self_id, neighbors, msg, incoming_neighbor, now) ==
    LET f  == utils_add_if_new(r.seen, msg.msg_id, now, UTILS_TTL)
    IN  IF ~f.ret
        THEN [r |-> [r EXCEPT !.seen = f.data], raised |-> FALSE,
              spf |-> "none", dup |-> TRUE, changed |-> FALSE, to |-> {},
              inbox |-> inbox]
        ELSE Bind(apply_lsp_message(r.db, msg.payload, now),
                  LAMBDA a :
                     Bind(run_spf(a.db, self_id, now),
                          LAMBDA sp :
                             HandleResult([r EXCEPT !.seen = f.data], inbox,
                                          self_id, neighbors, msg,
                                          incoming_neighbor, now, a, sp)))

\* the info branch of Node._on_packet: the internal LSP handed to the router
InfoToLsp(pkt, now) ==
    [pkt EXCEPT !.type = TYPE_LSP,
                !.payload = [origin |-> pkt.payload.origin,
                             seq |-> SeqOrTime(pkt.payload.seq, now),
                             links |-> normalize_links_any_to_list(pkt.payload.links)]]

\* Node._on_packet for a packet of type lsp or info; an exception of the
\* router is caught and logged
lsr_on_lsp_packet(r, inbox, self_id, neighbors, pkt, now) ==
    LET last_hop == LastHop(pkt.headers)
        msg      == IF pkt.type = TYPE_INFO THEN InfoToLsp(pkt, now) ELSE pkt
    IN  handle_lsp(r, inbox, self_id, neighbors, msg, last_hop, now)

\* the info packet a peer implementation publishes for `origin`
PeerInfo(origin, seq, links) ==
    [proto |-> PROTO_LSR, type |-> TYPE_INFO, from |-> origin,
     to |-> BROADCAST, ttl |-> PEER_INFO_TTL, headers |-> <<origin>>,
     payload |-> [origin |-> origin, seq |-> seq, links |-> LinksMap(links)],
     msg_id |-> [o |-> origin, s |-> seq, by |-> "peer"]]

\* what the peers advertise, in this order: the line, and then B with the
\* link to C gone
LcPeerAds ==
    <<PeerInfo("B", 1, [nb \in LcTopo["B"] |-> 1]),
      PeerInfo("C", 1, [nb \in LcTopo["C"] |-> 1]),
      PeerInfo("D", 1, [nb \in LcTopo["D"] |-> 1]),
      PeerInfo("B", 2, [nb \in {"A"} |-> 1])>>

LcNoEvent ==
    [node |-> None, kind |-> "none", origin |-> None, seq |-> 0,
     links |-> << >>, prevseq |-> << >>, changed |-> FALSE, spf |-> "none",
     raised |-> FALSE, to |-> {}, conv |-> FALSE, seq0 |-> 0,
     hop |-> None, ttl |-> 0, id |-> None]

LcIdle ==
    [now |-> 0,
     up |-> [n \in LcNodes |-> TRUE],
     timer |-> [n \in LcNodes |-> "run"],
     fired |-> [n \in LcNodes |-> FALSE],
     seq |-> [n \in LcNodes |-> 0],
     db |-> [n \in LcNodes |-> << >>],
     next_hop |-> [n \in LcNodes |-> << >>],
     dist |-> [n \in LcNodes |-> << >>],
     seen |-> [n \in LcNodes |-> << >>],
     inbox |-> [n \in LcNodes |-> << >>],
     peer |-> 0,
     rp |-> 0,
     hnd |-> [n \in LcNodes |-> {}],
     rep |-> [n \in LcNodes |-> {}],
     ev |-> LcNoEvent]

\* hop counts on the line
LcHops(a, b) == IF Ord(a) >= Ord(b) THEN Ord(a) - Ord(b) ELSE Ord(b) - Ord(a)

\* the first hop from a towards b on the line
LcFirstHop(a, b) ==
    CHOOSE x \in LcTopo[a] : LcHops(x, b) = LcHops(a, b) - 1

\* node n's table has every other node, at its hop count, through the first
\* hop of the shortest path
LcTableFull(n) ==
    \A d \in LcNodes \ {n} :
        /\ d \in DOMAIN lc.next_hop[n]
        /\ lc.next_hop[n][d] = LcFirstHop(n, d)
        /\ d \in DOMAIN lc.dist[n]
        /\ lc.dist[n][d] = LcHops(n, d)

LcConverged == \A n \in LcNodes : LcTableFull(n)

\* the router's state written back, with the event of the call
LcStore(n, res, kind, payload, now2) ==
    [lc EXCEPT !.seq[n] = res.r.seq, !.db[n] = res.r.db,
               !.next_hop[n] = res.r.next_hop, !.dist[n] = res.r.dist,
               !.seen[n] = res.r.seen, !.inbox = res.inbox,
               !.ev = [node |-> n, kind |-> kind, origin |-> payload.origin,
                       seq |-> payload.seq, links |-> payload.links.m,
                       prevseq |-> IF payload.origin \in DOMAIN lc.db[n]
                                   THEN <<lc.db[n][payload.origin].seq>>
                                   ELSE << >>,
                       changed |-> res.changed, spf |-> res.spf,
                       raised |-> res.raised, to |-> res.to,
                       conv |-> LcTableFull(n), seq0 |-> lc.seq[n],
                       hop |-> None, ttl |-> LSP_TTL, id |-> None]]

LcOwnPayload(n) ==
    [origin |-> n, seq |-> lc.seq[n] + 1,
     links |-> LinksList([nb \in LcTopo[n] |-> 1])]

\* the clock advances
LcTick ==
    /\ lc.now < LcMaxTicks * LcTimeStep
    /\ \A n \in LcNodes : (lc.up[n] /\ lc.timer[n] = "run") => lc.fired[n]
    /\ lc' = [lc EXCEPT !.now = lc.now + LcTimeStep,
                        !.fired = [n \in LcNodes |-> FALSE]]
    /\ UNCHANGED <<ft, spf, dup, lsdb, fl, dj, ls, san, lk, bc, mx, bd, tm>>

\* Node._lsp_loop: the timer thread calls originate_lsp; an exception ends
\* the thread
LcTimer(n) ==
    /\ lc.up[n]
    /\ lc.timer[n] = "run"
    /\ ~lc.fired[n]
    /\ \E res \in {originate_lsp(LcRouter(n, lc), lc.inbox, n, LcTopo[n], lc.now)} :
          lc' = [LcStore(n, res, "timer", LcOwnPayload(n), lc.now)
                    EXCEPT !.fired[n] = TRUE,
                           !.timer[n] = IF res.raised THEN "dead" ELSE "run"]
    /\ UNCHANGED <<ft, spf, dup, lsdb, fl, dj, ls, san, lk, bc, mx, bd, tm>>

\* console `lsp`: originate_lsp on the main thread; an exception leaves
\* _console_loop and ends the process
LcConsoleLsp(n) ==
    /\ lc.up[n]
    /\ lc.seq[n] < LcMaxSeq
    /\ \E res \in {originate_lsp(LcRouter(n, lc), lc.inbox, n, LcTopo[n], lc.now)} :
          lc' = [LcStore(n, res, "console", LcOwnPayload(n), lc.now)
                    EXCEPT !.up[n] = ~res.raised]
    /\ UNCHANGED <<ft, spf, dup, lsdb, fl, dj, ls, san, lk, bc, mx, bd, tm>>

\* a peer implementation publishes its next advertisement to node n
LcPeer(n) ==
    /\ lc.peer < Len(LcPeerAds)
    /\ lc.inbox[n] = << >>
    /\ lc' = [lc EXCEPT !.inbox[n] = Append(lc.inbox[n], LcPeerAds[lc.peer + 1]),
                        !.peer = lc.peer + 1,
                        !.ev = LcNoEvent]
    /\ UNCHANGED <<ft, spf, dup, lsdb, fl, dj, ls, san, lk, bc, mx, bd, tm>>

\* Node._on_packet on the oldest packet of the node's channel
LcReceive(n) ==
    /\ lc.up[n]
    /\ lc.inbox[n] # << >>
    /\ LET pkt   == Head(lc.inbox[n])
           rest  == [lc.inbox EXCEPT ![n] = Tail(lc.inbox[n])]
           inner == IF pkt.type = TYPE_INFO THEN InfoToLsp(pkt, lc.now) ELSE pkt
       IN  \E res \in {lsr_on_lsp_packet(LcRouter(n, lc), rest, n, LcTopo[n],
                                         pkt, lc.now)} :
              lc' = [LcStore(n, res, IF res.dup THEN "duplicate" ELSE "handle",
                             [inner.payload EXCEPT
                                 !.links = LinksList(LinksOfPayload(inner.payload.links))],
                             lc.now)
                        EXCEPT !.ev.hop = LastHop(pkt.headers),
                               !.ev.ttl = pkt.ttl,
                               !.ev.id = pkt.msg_id,
                               !.hnd[n] = IF res.dup THEN lc.hnd[n]
                                          ELSE lc.hnd[n] \cup {pkt.msg_id},
                               !.rep[n] = IF ~res.dup /\ pkt.msg_id \in lc.hnd[n]
                                          THEN lc.rep[n] \cup {pkt.msg_id}
                                          ELSE lc.rep[n]]
    /\ UNCHANGED <<ft, spf, dup, lsdb, fl, dj, ls, san, lk, bc, mx, bd, tm>>

\* advertisements a peer publishes a second time
LcMaxReplay == 1

\* a peer implementation publishes to node n one of its advertisements once
\* more: the same packet, or the same payload in a packet with a new msg_id
LcReplay(n, k, again) ==
    /\ lc.rp < LcMaxReplay
    /\ k <= lc.peer
    /\ lc.inbox[n] = << >>
    /\ lc' = [lc EXCEPT
                !.inbox[n] = Append(lc.inbox[n],
                                IF again THEN LcPeerAds[k]
                                ELSE [LcPeerAds[k] EXCEPT !.msg_id.by = "peer2"]),
                !.rp = lc.rp + 1,
                !.ev = LcNoEvent]
    /\ UNCHANGED <<ft, spf, dup, lsdb, fl, dj, ls, san, lk, bc, mx, bd, tm>>

NextLsrCtl ==
    \/ LcTick
    \/ \E n \in LcNodes : LcTimer(n)
    \/ \E n \in LcConsoleNodes : LcConsoleLsp(n)
    \/ \E n \in LcPeerTargets : LcPeer(n)
    \/ \E n \in LcNodes : LcReceive(n)

\* an advertisement node n itself has flooded to its neighbor nb comes back
\* to n, relayed by the node `via`: nb itself, or a node further on that
\* lists n as a neighbor
LcEcho(n, nb, via) ==
    /\ lc.rp < LcMaxReplay
    /\ nb \in LcTopo[n]
    /\ via # n
    /\ lc.inbox[n] = << >>
    /\ \E i \in {Len(lc.inbox[nb])} \ {0} :
          /\ lc.inbox[nb][i].payload.origin = n
          /\ lc.inbox[nb][i].from = n
          /\ lc.inbox[nb][i].msg_id.by = n
          /\ lc' = [lc EXCEPT
                      !.inbox[n] = Append(lc.inbox[n],
                                      [lc.inbox[nb][i] EXCEPT
                                          !.from = via, !.headers = <<via>>]),
                      !.rp = lc.rp + 1,
                      !.ev = LcNoEvent]
    /\ UNCHANGED <<ft, spf, dup, lsdb, fl, dj, ls, san, lk, bc, mx, bd, tm>>

NextLsrCtlAny ==
    \/ NextLsrCtl
    \/ \E n \in LcPeerTargets : \E k \in 1..Len(LcPeerAds) :
          \E again \in BOOLEAN : LcReplay(n, k, again)
    \/ \E n \in LcNodes : \E nb \in LcNodes : \E via \in {"B", "C"} :
          LcEcho(n, nb, via)

\* no LSP timer runs and no packet waits: nothing the nodes do by themselves
\* can happen any more
LcQuiet ==
    \A n \in LcNodes : lc.inbox[n] = << >> /\ lc.timer[n] = "dead"

\* C11: on the line A-B, B-C, C-D, with every published packet handed over
\* and every running LSP timer firing, the nodes eventually all hold a full
\* routing table (every other node, cost = hop count, next hop = first hop
\* of the shortest path); a state in which the nodes have nothing left to do
\* is therefore a converged one
C11_Converges == LcQuiet => LcConverged

\* what the code does on the line without peer advertisements: every SPF
\* run ends in the solver's KeyError, no node floods, no table gets an entry
LcNoFloodAsCoded ==
    lc.peer = 0 =>
        /\ \A n \in LcNodes : lc.next_hop[n] = << >> /\ lc.inbox[n] = << >>
        /\ lc.ev.kind # "none" => lc.ev.spf = "err" /\ lc.ev.to = {}

\* node A, holding a full table, has just received and applied an LSP of B
\* with the next seq and the links {A: 1}
LcBLostC ==
    /\ lc.ev.kind = "handle"
    /\ lc.ev.node = "A"
    /\ lc.ev.conv
    /\ lc.ev.origin = "B"
    /\ lc.ev.links = [nb \in {"A"} |-> 1]
    /\ lc.ev.changed
    /\ lc.ev.prevseq = <<lc.ev.seq - 1>>

\* C12: from the converged state of the line, once A has received and
\* applied an LSP of B with seq = previous seq + 1 and links = {A: 1}, A's
\* next_hop has no entry for C and none for D
C12_RoutesWithdrawn ==
    LcBLostC => "C" \notin DOMAIN lc.next_hop["A"]
                /\ "D" \notin DOMAIN lc.next_hop["A"]

\* what the code does there: the routes go when the SPF run succeeds; when
\* the solver raises, A keeps the table it had
LcRoutesWithdrawnAsCoded ==
    LcBLostC =>
        IF lc.ev.spf = "ok"
        THEN "C" \notin DOMAIN lc.next_hop["A"] /\ "D" \notin DOMAIN lc.next_hop["A"]
        ELSE lc.ev.spf = "err" /\ LcTableFull("A")

\* C16: the solver accepts any directed graph: an SPF run over lsdb.graph()
\* returns normally also when the source or an edge head is not a key of
\* the graph (such a node counts as isolated)
C16_SolverTotal == lc.ev.spf # "err"

\* what the code does: the solver raises exactly when the source, or an edge
\* head reachable from it, is not an origin of the database
RECURSIVE LcReach(_, _)
LcReach(g, S) ==
    LET T == S \cup UNION {DOMAIN g[u] : u \in S \cap DOMAIN g}
    IN  IF T = S THEN S ELSE LcReach(g, T)

LcSolverAsCoded ==
    (lc.ev.kind \in {"timer", "console", "handle"} /\ lc.ev.changed) =>
        LET g == graph(lc.db[lc.ev.node])
        IN  (lc.ev.spf = "err") <=> ~(LcReach(g, {lc.ev.node}) \subseteq DOMAIN g)

\* the last step was a first receipt of an LSP or info packet by handle_lsp
LcHandled == lc.ev.kind = "handle"

\* C31: a link-state node applies and re-floods a received LSP msg_id at
\* most once within the dedup window; on the first receipt it calls
\* apply_lsp, runs SPF only if the LSP was accepted, and floods the LSP to
\* every configured neighbor except the previous hop, whether or not the LSP
\* was accepted
C31_LspHandledOnce ==
    /\ \A n \in LcNodes : lc.rep[n] = {}
    /\ lc.ev.kind = "duplicate" =>
          ~lc.ev.changed /\ lc.ev.spf = "none" /\ lc.ev.to = {}
    /\ LcHandled =>
          /\ lc.ev.id \in lc.hnd[lc.ev.node]
          /\ lc.ev.spf # "none" <=> lc.ev.changed
          /\ lc.ev.to = LcTopo[lc.ev.node] \ {lc.ev.hop}

\* what the code does: the dedup and the SPF condition are as stated; the
\* flood reaches every neighbor but the previous hop when the LSP was
\* rejected or the SPF run returned (the ttl of the packet being positive),
\* and nobody when the SPF run raised
LcHandledAsCoded ==
    /\ \A n \in LcNodes : lc.rep[n] = {}
    /\ lc.ev.kind = "duplicate" =>
          ~lc.ev.changed /\ lc.ev.spf = "none" /\ lc.ev.to = {}
    /\ LcHandled =>
          /\ lc.ev.id \in lc.hnd[lc.ev.node]
          /\ lc.ev.spf # "none" <=> lc.ev.changed
          /\ lc.ev.to = IF lc.ev.spf = "err" \/ lc.ev.ttl <= 0 THEN {}
                        ELSE LcTopo[lc.ev.node] \ {lc.ev.hop}

\* an accepted LSP was flooded on; a rejected one was flooded on; a second
\* copy arrived
LcHandledFlooded == LcHandled /\ lc.ev.spf = "ok" /\ lc.ev.to # {}
LcRejectedFlooded == LcHandled /\ ~lc.ev.changed /\ lc.ev.to # {}
LcDuplicateSeen == lc.ev.kind = "duplicate"

\* a node has re-flooded an LSP it originated itself
LcOwnReflooded ==
    /\ lc.ev.kind = "handle"
    /\ lc.ev.origin = lc.ev.node
    /\ lc.ev.id.by = lc.ev.node
    /\ lc.ev.to # {}

\* what the code does in the link-state node: originate_lsp does not record
\* the msg_id in seen_lsp_ids, so the first copy of an own LSP that returns
\* is handled: the LSDB rejects it unless the own entry has aged out, and,
\* the SPF run not raising, it is flooded on to every neighbor but the one
\* that returned it
LcOwnLspAsCoded ==
    (lc.ev.kind = "handle" /\ lc.ev.origin = lc.ev.node
        /\ lc.ev.id.by = lc.ev.node) =>
        /\ lc.ev.changed <=> lc.ev.prevseq = << >>
        /\ lc.ev.spf # "none" <=> lc.ev.changed
        /\ lc.ev.to = IF lc.ev.spf = "err" THEN {}
                      ELSE LcTopo[lc.ev.node] \ {lc.ev.hop}

\* C37: the node that originates a packet never relays that msg_id again:
\* a flooding node that issued `send` does not re-broadcast its own message
\* when a copy returns to it, and a link-state node does not re-flood an LSP
\* it originated itself, in any topology and under any interleaving of the
\* originator's publishes with the relays of the other nodes
C37_OriginatorSilent == FlOriginatorSilent /\ ~LcOwnReflooded

\* the last step was a call of originate_lsp
LcOriginated == lc.ev.kind \in {"timer", "console"}

\* the calling node has stored its own entry with the seq of the call and
\* links naming every configured neighbor
LcOwnStored ==
    /\ lc.seq[lc.ev.node] = lc.ev.seq
    /\ lc.ev.node \in DOMAIN lc.db[lc.ev.node]
    /\ lc.db[lc.ev.node][lc.ev.node].seq = lc.ev.seq
    /\ DOMAIN lc.db[lc.ev.node][lc.ev.node].links = LcTopo[lc.ev.node]

\* the newest packet on the channel of every neighbor of the calling node
\* carries origin = self, the seq of the call and the links of the call
LcOwnPublished ==
    /\ lc.ev.to = LcTopo[lc.ev.node]
    /\ \A nb \in LcTopo[lc.ev.node] :
          /\ lc.inbox[nb] # << >>
          /\ LET p == lc.inbox[nb][Len(lc.inbox[nb])]
             IN  /\ p.payload.origin = lc.ev.node
                 /\ p.payload.seq = lc.ev.seq
                 /\ DOMAIN p.payload.links.m = LcTopo[lc.ev.node]

\* C30: every call of originate_lsp on a node with at least one configured
\* neighbor completes all its steps: the own seq goes up by 1, the own LSDB
\* entry holds that seq and every configured neighbor, SPF runs over
\* lsdb.graph(), and a packet with origin = self, that seq and those links
\* is published to every configured neighbor; also in the very first call
C30_OriginateCompletes ==
    LcOriginated =>
        /\ LcOwnStored
        /\ lc.ev.seq = lc.ev.seq0 + 1
        /\ lc.ev.spf = "ok"
        /\ LcOwnPublished

\* what the code does: the seq and the own entry are always written; the
\* call publishes exactly when the SPF run returns, and an SPF run over a
\* database that lacks the entry of a node reachable from self (as in the
\* first call) raises, which ends the call before the flood
LcOriginateAsCoded ==
    LcOriginated =>
        /\ LcOwnStored
        /\ lc.ev.seq = lc.ev.seq0 + 1
        /\ IF LcReach(graph(lc.db[lc.ev.node]), {lc.ev.node})
                 \subseteq DOMAIN lc.db[lc.ev.node]
           THEN lc.ev.spf = "ok" /\ ~lc.ev.raised /\ LcOwnPublished
           ELSE lc.ev.spf = "err" /\ lc.ev.raised /\ lc.ev.to = {}
        /\ Cardinality(DOMAIN lc.db[lc.ev.node]) = 1 => lc.ev.spf = "err"

\* a call of originate_lsp that went through to the flood
LcOriginateFlooded == LcOriginated /\ lc.ev.spf = "ok" /\ LcOwnPublished

\* ------------------------------------------------------------------------
\* Subsystem SAN: the receive prologue applied to one raw input
\* ------------------------------------------------------------------------
\* A raw input is the record
\*   kind    "dict" for a mapping, "other" for any other JSON value
\*   has     the keys present in the mapping
\*   proto, type, from, to, payload   the values of those keys
\*   ttl     [k, v]: k = "int" the integer v; "str" the numeric string of v;
\*           "float" the number v + 0.5; "bad" a value int() rejects
\*   headers [k, key, items, mid]: k = "list" the array items; "dict" the
\*           object {key: items, "msg_id": mid} (key "none": no such key;
\*           key "last_hop": items holds the one id); "null"; "scalar"
\*   msg_id  the id, "" when empty or null
\* A header item is a string or NoneElem (null).
NoneElem == "<null>"

\* make_msg_id(): the id generated by the first and by the second call
GenIds == <<"uuid-1", "uuid-2">>

\* DEFAULT_TTL_INFO
DEFAULT_TTL_INFO == 5

\* str(x) of a header item
StrOf(x) == IF x = NoneElem THEN "None" ELSE x

\* [str(h) for h in headers]
RECURSIVE StrAll(_)
StrAll(s) == IF s = << >> THEN << >> ELSE <<StrOf(Head(s))>> \o StrAll(Tail(s))

\* [h for h in headers if h is not None]
RECURSIVE DropNone(_)
DropNone(s) ==
    IF s = << >> THEN << >>
    ELSE IF Head(s) = NoneElem THEN DropNone(Tail(s))
    ELSE <<Head(s)>> \o DropNone(Tail(s))

\* normalize_headers on an array with nulls
normalize_headers_raw(items) == LastN(DropNone(items), HEADERS_MAXLEN)

\* int(ttl): << >> when int() raises
IntOf(ttl) == IF ttl.k = "bad" THEN << >> ELSE <<ttl.v>>

ListHeaders(items) == [k |-> "list", key |-> "none", items |-> items, mid |-> ""]

\* pkt.get("headers"): null when the key is absent
HeadersGet(raw) ==
    IF "headers" \in raw.has THEN raw.headers
    ELSE [k |-> "null", key |-> "none", items |-> << >>, mid |-> ""]

\* _coerce_headers_list (Dijkstra/node.py)
coerce_headers_list(h) ==
    IF h.k = "list" THEN StrAll(h.items)
    ELSE IF h.k = "dict" /\ h.key \in {"trail", "path"} THEN StrAll(h.items)
    ELSE IF h.k = "dict" /\ h.key = "last_hop" /\ h.items # << >>
              /\ h.items[1] # NoneElem
    THEN <<StrOf(h.items[1])>>
    ELSE << >>

\* _extract_trail_from_headers_maybe_dict (LSR/protocols.py)
extract_trail_from_headers_maybe_dict(h) ==
    IF h.k = "list" THEN normalize_headers_raw(h.items)
    ELSE IF h.k = "dict" /\ h.key \in {"trail", "path"}
    THEN normalize_headers_raw(h.items)
    ELSE << >>

\* is_valid_packet of Dijkstra/protocols.py
dj_is_valid_packet(raw) ==
    /\ raw.kind = "dict"
    /\ PacketFields \subseteq raw.has
    /\ raw.headers.k = "list"
    /\ IntOf(raw.ttl) # << >>

\* mutant of dj_sanitize_incoming: the ttl is decremented on the way in
dj_sanitize_incoming_ttl(raw) ==
    IF ~dj_is_valid_packet(raw) THEN << >>
    ELSE <<[proto |-> raw.proto, type |-> raw.type, from |-> raw.from,
            to |-> raw.to, ttl |-> IntOf(raw.ttl)[1] - 1,
            headers |-> normalize_headers_raw(raw.headers.items),
            payload |-> raw.payload, msg_id |-> raw.msg_id]>>

\* sanitize_incoming of Dijkstra/protocols.py: << >> when it raises
dj_sanitize_incoming(raw) ==
    IF ~dj_is_valid_packet(raw) THEN << >>
    ELSE <<[proto |-> raw.proto, type |-> raw.type, from |-> raw.from,
            to |-> raw.to, ttl |-> IntOf(raw.ttl)[1],
            headers |-> normalize_headers_raw(raw.headers.items),
            payload |-> raw.payload, msg_id |-> raw.msg_id]>>

\* the first lines of Node._on_packet of Dijkstra/node.py: headers that are
\* not an array are coerced to one, then sanitize_incoming
dj_receive_prologue(raw) ==
    IF raw.kind = "dict" /\ HeadersGet(raw).k # "list"
    THEN dj_sanitize_incoming(
            [raw EXCEPT !.has = raw.has \cup {"headers"},
                        !.headers = ListHeaders(coerce_headers_list(HeadersGet(raw)))])
    ELSE dj_sanitize_incoming(raw)

\* sanitize_incoming of LSR/protocols.py: << >> when it raises; fresh is the
\* id make_msg_id() returns if called
lsr_sanitize_incoming_raw(raw, fresh) ==
    LET h   == HeadersGet(raw)
        get(f, default) == IF f \in raw.has THEN raw[f] ELSE default
        mid == IF "msg_id" \in raw.has /\ raw.msg_id # "" THEN raw.msg_id
               ELSE IF h.k = "dict" /\ h.mid # "" THEN h.mid
               ELSE fresh
    IN  IF raw.kind # "dict" THEN << >>
        ELSE IF "ttl" \in raw.has /\ IntOf(raw.ttl) = << >> THEN << >>
        ELSE <<[proto |-> get("proto", PROTO_LSR),
                type |-> get("type", TYPE_MESSAGE),
                from |-> get("from", "?"),
                to |-> get("to", BROADCAST),
                ttl |-> IF "ttl" \in raw.has THEN IntOf(raw.ttl)[1]
                        ELSE DEFAULT_TTL_INFO,
                headers |-> extract_trail_from_headers_maybe_dict(h),
                payload |-> get("payload", "{}"),
                msg_id |-> mid]>>

\* a packet as the raw input it deserializes to
ToRaw(pkt) ==
    [kind |-> "dict", has |-> PacketFields, proto |-> pkt.proto,
     type |-> pkt.type, from |-> pkt.from, to |-> pkt.to,
     ttl |-> [k |-> "int", v |-> pkt.ttl],
     headers |-> ListHeaders(pkt.headers),
     payload |-> pkt.payload, msg_id |-> pkt.msg_id]

\* f applied to its own result
SecondPassDj(out) ==
    IF out = << >> THEN << >> ELSE dj_sanitize_incoming(ToRaw(out[1]))
SecondPassLsr(out) ==
    IF out = << >> THEN << >>
    ELSE lsr_sanitize_incoming_raw(ToRaw(out[1]), GenIds[2])

\* the inputs tried
SanHeaderItems ==
    {<< >>, <<"A">>, <<"A", "B", "C">>, <<"A", "B", "C", "D">>,
     <<"A", NoneElem, "B">>}
SanHeaders ==
    {ListHeaders(it) : it \in SanHeaderItems}
    \cup {[k |-> "dict", key |-> ky, items |-> <<"A", "B">>, mid |-> m] :
            ky \in {"trail", "none"}, m \in {"", "h1"}}
    \cup {[k |-> "dict", key |-> ky, items |-> <<"A", "B", "C", "D">>,
            mid |-> ""] : ky \in {"trail", "path"}}
    \cup {[k |-> "dict", key |-> "last_hop", items |-> <<"B">>, mid |-> ""],
          [k |-> "null", key |-> "none", items |-> << >>, mid |-> ""],
          [k |-> "scalar", key |-> "none", items |-> << >>, mid |-> ""]}
SanTtls ==
    {[k |-> "int", v |-> 3], [k |-> "int", v |-> 0], [k |-> "int", v |-> -1],
     [k |-> "str", v |-> 3], [k |-> "float", v |-> 2], [k |-> "bad", v |-> 0]}
SanHas == {PacketFields} \cup {PacketFields \ {f} : f \in PacketFields}
SanRaws ==
    {[kind |-> kd, has |-> hs, proto |-> PROTO_LSR, type |-> TYPE_MESSAGE,
      from |-> "A", to |-> "C", ttl |-> t, headers |-> h,
      payload |-> "hello", msg_id |-> m] :
        kd \in {"dict"}, hs \in SanHas, t \in SanTtls, h \in SanHeaders,
        m \in {"m1", ""}}
    \cup {[kind |-> "other", has |-> {}, proto |-> PROTO_LSR,
           type |-> TYPE_MESSAGE, from |-> "A", to |-> "C",
           ttl |-> [k |-> "int", v |-> 3], headers |-> ListHeaders(<<"A">>),
           payload |-> "hello", msg_id |-> "m1"]}

SanIdle ==
    [raw |-> ToRaw(new_message("A", "C", "hello", PROTO_LSR, 3, "m1")),
     dj |-> << >>, djrx |-> << >>, lsr |-> << >>, dj2 |-> << >>,
     lsr2 |-> << >>, pc |-> "ready"]

\* the raw input goes through both receive prologues, and each result
\* through its sanitize_incoming again
SanReceive ==
    /\ san.pc = "ready"
    /\ \E d \in {dj_sanitize_incoming(san.raw)} :
       \E l \in {lsr_sanitize_incoming_raw(san.raw, GenIds[1])} :
          san' = [san EXCEPT !.dj = d, !.djrx = dj_receive_prologue(san.raw),
                             !.lsr = l, !.dj2 = SecondPassDj(d),
                             !.lsr2 = SecondPassLsr(l), !.pc = "done"]
    /\ UNCHANGED <<ft, spf, dup, lsdb, fl, dj, ls, lc, lk, bc, mx, bd, tm>>

NextSan == SanReceive

\* the raw input is not a mapping, lacks one of proto, type, from, to, ttl,
\* headers, has a ttl that is no integer, or headers that are neither an
\* array nor an object
SanMalformed ==
    \/ san.raw.kind # "dict"
    \/ ~({"proto", "type", "from", "to", "ttl", "headers"} \subseteq san.raw.has)
    \/ san.raw.ttl.k \in {"float", "bad"}
    \/ san.raw.headers.k \notin {"list", "dict"}

\* C14: in every engine's receive path a malformed raw input is rejected
\* (dropped before any delivery, publish or change of state)
C14_MalformedRejected ==
    (san.pc = "done" /\ SanMalformed) => san.djrx = << >> /\ san.lsr = << >>

\* what the code does: the Dijkstra path rejects a non-mapping, a missing
\* key other than headers and a ttl int() rejects; the LSR path rejects a
\* non-mapping and a ttl int() rejects, and nothing else
SanRejectedAsCoded ==
    san.pc = "done" =>
        /\ san.djrx = << >> <=>
              \/ san.raw.kind # "dict"
              \/ ~(PacketFields \ {"headers"} \subseteq san.raw.has)
              \/ san.raw.ttl.k = "bad"
        /\ san.lsr = << >> <=>
              \/ san.raw.kind # "dict"
              \/ "ttl" \in san.raw.has /\ san.raw.ttl.k = "bad"

\* a legal packet: every field, an integer ttl >= 0, at most HEADERS_MAXLEN
\* headers, all strings, and a msg_id
SanLegal ==
    /\ san.raw.kind = "dict"
    /\ san.raw.has = PacketFields
    /\ san.raw.ttl.k = "int" /\ san.raw.ttl.v >= 0
    /\ san.raw.headers.k = "list"
    /\ Len(san.raw.headers.items) <= HEADERS_MAXLEN
    /\ \A i \in 1..Len(san.raw.headers.items) : san.raw.headers.items[i] # NoneElem
    /\ san.raw.msg_id # ""

\* C15: sanitize_incoming returns a legal packet unchanged, and applied to
\* any input it accepts it returns a packet it maps to itself (a generated
\* msg_id is kept by the second pass)
C15_SanitizeIdempotent ==
    san.pc = "done" =>
        /\ SanLegal => /\ san.dj # << >> /\ ToRaw(san.dj[1]) = san.raw
                       /\ san.lsr # << >> /\ ToRaw(san.lsr[1]) = san.raw
        /\ san.dj # << >> => san.dj2 = san.dj
        /\ san.lsr # << >> => san.lsr2 = san.lsr

\* witness of C15: an input with four headers and no msg_id went through the
\* LSR sanitize_incoming, which cut the headers and generated the id
C15_Witness ==
    /\ san.pc = "done"
    /\ "msg_id" \notin san.raw.has
    /\ san.raw.headers.k = "list" /\ Len(san.raw.headers.items) > HEADERS_MAXLEN
    /\ san.lsr # << >> /\ san.lsr[1].msg_id = GenIds[1]
    /\ Len(san.lsr[1].headers) = HEADERS_MAXLEN
    /\ san.lsr2 = san.lsr

\* the raw input that went through the prologues has a mapping as headers
SanMapping ==
    /\ san.pc = "done"
    /\ san.raw.kind = "dict"
    /\ "headers" \in san.raw.has
    /\ san.raw.headers.k = "dict"

\* the list under trail, else the list under path, else [last_hop], else the
\* empty list, cut to its last three elements
SanTrailOf(h) ==
    LastN(IF h.key \in {"trail", "path"} THEN h.items
          ELSE IF h.key = "last_hop" THEN <<h.items[1]>>
          ELSE << >>, HEADERS_MAXLEN)

\* C27: headers that arrive as a mapping are normalized to the list under
\* trail if present, else the list under path, else [last_hop], else the
\* empty list, cut to the last 3 elements, in every engine that accepts
\* mapping headers
C27_MappingHeaders ==
    SanMapping =>
        /\ san.djrx # << >> => san.djrx[1].headers = SanTrailOf(san.raw.headers)
        /\ san.lsr # << >> => san.lsr[1].headers = SanTrailOf(san.raw.headers)

\* what the code does for C27: the static-SPF node follows the rule; the
\* link-state sanitize_incoming knows trail and path only, a mapping with
\* last_hop alone becomes the empty list
SanMappingAsCoded ==
    SanMapping =>
        /\ san.djrx # << >> => san.djrx[1].headers = SanTrailOf(san.raw.headers)
        /\ san.lsr # << >> =>
              san.lsr[1].headers = IF san.raw.headers.key = "last_hop" THEN << >>
                                   ELSE SanTrailOf(san.raw.headers)

\* ------------------------------------------------------------------------
\* Subsystem LINKS: one advertisement received by LSR node A in each of its
\* wire forms
\* ------------------------------------------------------------------------
\* the wire forms: the type of the packet and the shape of payload.links
LkForms ==
    {[type |-> ty, shape |-> sh] :
        ty \in {TYPE_LSP, TYPE_INFO}, sh \in {"list", "map"}}

\* the advertisements tried
LkOrigins == {"B", "C"}
LkSeqs == {0, 1, 2}
LkLinkMaps ==
    {<< >>, [nb \in {"A"} |-> 1], [nb \in {"A", "C"} |-> 1],
     [nb \in {"A", "C"} |-> IF nb = "A" THEN 1 ELSE 2]}
LkTimes == {0, LcTimeStep}

\* the packet on the wire
LkPacket(form, origin, seq, m) ==
    [proto |-> PROTO_LSR, type |-> form.type, from |-> origin,
     to |-> BROADCAST, ttl |-> DEFAULT_TTL_INFO, headers |-> <<origin>>,
     payload |-> [origin |-> origin, seq |-> seq,
                  links |-> [shape |-> form.shape, m |-> m]],
     msg_id |-> [o |-> origin, s |-> seq, by |-> "peer"]]

\* node A's router before the packet: its own entry, and the origin's entry
\* at seq `prior` if there is one
LkRouter(origin, prior) ==
    LET own == [o \in {"A"} |-> [seq |-> 1, links |-> [nb \in {"B"} |-> 1],
                                  ts |-> 0]]
        db  == IF prior = << >> THEN own
               ELSE [o \in {"A", origin} |->
                        IF o = "A" THEN own["A"]
                        ELSE [seq |-> prior[1], links |-> << >>, ts |-> 0]]
    IN  [seq |-> 1, db |-> db, next_hop |-> << >>, dist |-> << >>,
         seen |-> << >>]

\* the origin's entry after Node._on_packet received the packet
LkStored(form, origin, seq, m, prior, now) ==
    LET res == lsr_on_lsp_packet(LkRouter(origin, prior),
                                 [n \in LcNodes |-> << >>], "A", LcTopo["A"],
                                 LkPacket(form, origin, seq, m), now)
        db  == res.r.db
    IN  IF origin \in DOMAIN db
        THEN <<[seq |-> db[origin].seq, links |-> db[origin].links]>>
        ELSE << >>

LkIdle ==
    [origin |-> "B", seq |-> 1, m |-> << >>, prior |-> << >>, now |-> 0,
     stored |-> [f \in LkForms |-> << >>], pc |-> "ready"]

\* the same advertisement arrives in each form at a node in the same state
LkReceive ==
    /\ lk.pc = "ready"
    /\ lk' = [lk EXCEPT
                !.stored = [f \in LkForms |->
                              LkStored(f, lk.origin, lk.seq, lk.m, lk.prior,
                                       lk.now)],
                !.pc = "done"]
    /\ UNCHANGED <<ft, spf, dup, lsdb, fl, dj, ls, lc, san, bc, mx, bd, tm>>

NextLinks == LkReceive

\* C18: an LSR node that receives an lsp or info packet with payload
\* {origin, seq, links} stores the same LSDB entry (seq and neighbor -> cost)
\* whether links is an array of {to, cost} or an object {id: cost}, and
\* whether the type is lsp or info
C18_SameEntryAnyForm ==
    lk.pc = "done" =>
        \A f, g \in LkForms : lk.stored[f] = lk.stored[g]

\* what the code does: an info packet stores the advertised links in both
\* shapes, with seq 0 replaced by the clock; an lsp packet stores the seq as
\* sent, the links of an array, and no links at all for an object
LkStoredAsCoded ==
    lk.pc = "done" =>
        \A f \in LkForms :
            LET seq2 == IF f.type = TYPE_INFO THEN SeqOrTime(lk.seq, lk.now)
                        ELSE lk.seq
                m2   == IF f.type = TYPE_LSP /\ f.shape = "map" THEN << >>
                        ELSE lk.m
            IN  IF lk.prior = << >> \/ seq2 > lk.prior[1]
                THEN lk.stored[f] = <<[seq |-> seq2, links |-> m2]>>
                ELSE lk.stored[f] = <<[seq |-> lk.prior[1], links |-> << >>]>>

\* ------------------------------------------------------------------------
\* Subsystem BCAST: one Node.broadcast of flooding node A
\* ------------------------------------------------------------------------
BcSelf == "A"
BcNeighborIds == {"B", "C", "D"}
BcChannels == {"ch1", "ch2"}

\* channel_map.get(id)
ChannelGet(channel_map, id) ==
    IF id \in DOMAIN channel_map THEN channel_map[id] ELSE None

\* RedisTransport.channel_for: the mapped channel, or the default inbox
channel_for(channel_map, node_id) ==
    IF node_id \in DOMAIN channel_map THEN channel_map[node_id]
    ELSE "net:inbox:" \o node_id

\* the channels of s, left to right, but those equal to exclude
RECURSIVE KeepBut(_, _)
KeepBut(s, exclude) ==
    IF s = << >> THEN << >>
    ELSE IF exclude # None /\ Head(s) = exclude THEN KeepBut(Tail(s), exclude)
    ELSE <<Head(s)>> \o KeepBut(Tail(s), exclude)

\* RedisTransport.broadcast: the set of resolved channels of the neighbors
\* but exclude, one publish per channel
redis_broadcast(channel_map, neighbors, exclude) ==
    SetToSeq({channel_for(channel_map, neighbors[i]) :
                i \in {j \in 1..Len(neighbors) :
                         ~(exclude # None /\ neighbors[j] = exclude)}})

\* the list Node.__init__ builds in channel mode: the channel of every
\* neighbor that has one, in the order of the neighbors
RECURSIVE neighbor_channels(_, _)
neighbor_channels(channel_map, neighbors) ==
    IF neighbors = << >> THEN << >>
    ELSE IF Head(neighbors) \in DOMAIN channel_map
    THEN <<channel_map[Head(neighbors)]>>
         \o neighbor_channels(channel_map, Tail(neighbors))
    ELSE neighbor_channels(channel_map, Tail(neighbors))

\* ChannelRedisTransport.broadcast_channels: one publish per list element
broadcast_channels(channels, exclude) == KeepBut(channels, exclude)

\* Node.broadcast: channel mode when the node's own id has a channel; in id
\* mode the transport was built without a channel map
node_broadcast(self_id, channel_map, neighbors, exclude) ==
    IF ChannelGet(channel_map, self_id) # None
    THEN broadcast_channels(neighbor_channels(channel_map, neighbors),
                            IF exclude # None
                            THEN ChannelGet(channel_map, exclude) ELSE None)
    ELSE redis_broadcast(<< >>, neighbors, exclude)

\* lists of distinct neighbor ids
BcNeighborLists ==
    {s \in SeqUpTo(BcNeighborIds, Cardinality(BcNeighborIds)) :
        \A i, j \in 1..Len(s) : i # j => s[i] # s[j]}

\* channel maps over the node and its possible neighbors
BcChannelMaps ==
    UNION {[D -> BcChannels] : D \in SUBSET ({BcSelf} \cup BcNeighborIds)}

BcIdle ==
    [neighbors |-> << >>, channel_map |-> << >>, exclude |-> None,
     published |-> << >>, pc |-> "ready"]

BcBroadcast ==
    /\ bc.pc = "ready"
    /\ bc' = [bc EXCEPT
                !.published = node_broadcast(BcSelf, bc.channel_map,
                                             bc.neighbors, bc.exclude),
                !.pc = "done"]
    /\ UNCHANGED <<ft, spf, dup, lsdb, fl, dj, ls, lc, san, lk, mx, bd, tm>>

NextBcast == BcBroadcast

\* C19: one broadcast publishes at most once per distinct resolved channel,
\* for every channel map (several neighbors on one channel included), in id
\* mode and in channel mode
C19_OnePublishPerChannel ==
    bc.pc = "done" =>
        \A i, j \in 1..Len(bc.published) :
            i # j => bc.published[i] # bc.published[j]

\* what the code does: in id mode every neighbor but exclude gets one publish
\* on its own inbox; in channel mode every mapped neighbor whose channel is
\* not the excluded one gets a publish, shared channel or not
BcPublishedAsCoded ==
    bc.pc = "done" =>
        LET nbs == {bc.neighbors[i] : i \in 1..Len(bc.neighbors)}
            ex  == IF bc.exclude # None
                   THEN ChannelGet(bc.channel_map, bc.exclude) ELSE None
        IN  IF BcSelf \in DOMAIN bc.channel_map
            THEN Len(bc.published) =
                   Cardinality({n \in nbs \cap DOMAIN bc.channel_map :
                                   bc.channel_map[n] # ex})
            ELSE /\ Len(bc.published) = Cardinality(nbs \ {bc.exclude})
                 /\ \A i, j \in 1..Len(bc.published) :
                       i # j => bc.published[i] # bc.published[j]

\* the channel node n subscribes to: its channel of the names file when it
\* has one (channel mode), its default inbox otherwise (id mode)
BcListens(n) == channel_for(bc.channel_map, n)

\* C23: the packet a flooding node relays is published to every configured
\* neighbor except the previous hop (here bc.exclude, the last element of the
\* headers of the received packet), and never to the previous hop
C23_FloodExceptPrevHop ==
    bc.pc = "done" =>
        LET nbs == {bc.neighbors[i] : i \in 1..Len(bc.neighbors)}
            chs == {bc.published[i] : i \in 1..Len(bc.published)}
        IN  /\ \A n \in nbs \ {bc.exclude} : BcListens(n) \in chs
            /\ bc.exclude # None => BcListens(bc.exclude) \notin chs

\* the same when the names file gives no channel at all (every node in id
\* mode), as the code does it
BcIdModeAsCoded ==
    (bc.pc = "done" /\ bc.channel_map = << >>) =>
        LET nbs == {bc.neighbors[i] : i \in 1..Len(bc.neighbors)}
            chs == {bc.published[i] : i \in 1..Len(bc.published)}
        IN  chs = {BcListens(n) : n \in nbs \ {bc.exclude}}

\* ------------------------------------------------------------------------
\* Subsystem THREADS: the receiver thread, the LSP timer thread and the
\* console (main) thread of one LSR node inside LSRRouter.  The code takes no
\* lock; a thread can be preempted between any two of the steps below.  What
\* a received LSP holds, and whether the solver raises, depends on data this
\* subsystem leaves open: both outcomes are possible.
\* ------------------------------------------------------------------------
MxReceiver == "receiver"
MxTimer == "timer"
MxConsole == "console"
MxThreads == {MxReceiver, MxTimer, MxConsole}
MxOriginators == {MxTimer, MxConsole}

\* calls of originate_lsp / handle_lsp per thread
MxMaxCalls == 2

MxIdle ==
    [pc |-> [t \in MxThreads |-> "idle"],
     reg |-> [t \in MxThreads |-> 0],
     seq |-> 0, own |-> 0,
     calls |-> [t \in MxThreads |-> 0],
     msg |-> [t \in MxThreads |-> 0],
     sent |-> << >>,
     db |-> 0, g |-> [t \in MxThreads |-> 0], tab |-> 0, raised |-> FALSE]

\* _lsp_loop or the console command `lsp` calls originate_lsp
MxCallOriginate(t) ==
    /\ mx.pc[t] = "idle"
    /\ mx.calls[t] < MxMaxCalls
    /\ mx' = [mx EXCEPT !.pc[t] = "load"]
    /\ UNCHANGED <<ft, spf, dup, lsdb, fl, dj, ls, lc, san, lk, bc, bd, tm>>

\* self.seq += 1, first half: read self.seq
MxLoadSeq(t) ==
    /\ mx.pc[t] = "load"
    /\ mx' = [mx EXCEPT !.reg[t] = mx.seq, !.pc[t] = "store"]
    /\ UNCHANGED <<ft, spf, dup, lsdb, fl, dj, ls, lc, san, lk, bc, bd, tm>>

\* self.seq += 1, second half: write the value read plus one
MxStoreSeq(t) ==
    /\ mx.pc[t] = "store"
    /\ mx' = [mx EXCEPT !.seq = mx.reg[t] + 1, !.pc[t] = "apply"]
    /\ UNCHANGED <<ft, spf, dup, lsdb, fl, dj, ls, lc, san, lk, bc, bd, tm>>

\* _on_packet hands an LSP with a new id to handle_lsp
MxCallHandle(t) ==
    /\ mx.pc[t] = "idle"
    /\ mx.calls[t] < MxMaxCalls
    /\ mx' = [mx EXCEPT !.pc[t] = "apply"]
    /\ UNCHANGED <<ft, spf, dup, lsdb, fl, dj, ls, lc, san, lk, bc, bd, tm>>

\* originate_lsp builds the payload from self.seq and applies it: the LSDB
\* changes when that seq is greater than the one stored
MxApplyOwn(t) ==
    /\ mx.pc[t] = "apply"
    /\ mx' = [mx EXCEPT !.own = Max(mx.own, mx.seq),
                        !.msg[t] = mx.seq,
                        !.db = mx.db + (IF mx.seq > mx.own THEN 1 ELSE 0),
                        !.pc[t] = IF mx.seq > mx.own THEN "run_spf" ELSE "flood"]
    /\ UNCHANGED <<ft, spf, dup, lsdb, fl, dj, ls, lc, san, lk, bc, bd, tm>>

\* handle_lsp applies the received LSP, which changes the LSDB or not
MxApplyReceived(t, changed) ==
    /\ mx.pc[t] = "apply"
    /\ mx' = [mx EXCEPT !.db = mx.db + (IF changed THEN 1 ELSE 0),
                        !.pc[t] = IF changed THEN "run_spf" ELSE "flood"]
    /\ UNCHANGED <<ft, spf, dup, lsdb, fl, dj, ls, lc, san, lk, bc, bd, tm>>

\* _run_spf, first half: age_out() and g = self.lsdb.graph(), the graph of the
\* LSDB as it is now
MxReadGraph(t) ==
    /\ mx.pc[t] = "run_spf"
    /\ mx' = [mx EXCEPT !.g[t] = mx.db, !.pc[t] = "solve"]
    /\ UNCHANGED <<ft, spf, dup, lsdb, fl, dj, ls, lc, san, lk, bc, bd, tm>>

\* _run_spf, second half: build_next_hop_table(g, id) returns and the table
\* is assigned, or it raises: the exception ends the timer thread, ends the
\* process when on the console thread, and is caught by _on_packet on the
\* receiver thread
MxRunSpf(t, raises) ==
    /\ mx.pc[t] = "solve"
    /\ mx' = IF ~raises
             THEN [mx EXCEPT !.pc[t] = "flood", !.tab = mx.g[t], !.g[t] = 0]
             ELSE IF t = MxConsole
             THEN [mx EXCEPT !.pc = [u \in MxThreads |-> "dead"],
                             !.g[t] = 0, !.raised = TRUE]
             ELSE IF t = MxTimer
             THEN [mx EXCEPT !.pc[t] = "dead", !.g[t] = 0, !.raised = TRUE]
             ELSE [mx EXCEPT !.pc[t] = "idle", !.calls[t] = mx.calls[t] + 1,
                             !.g[t] = 0, !.raised = TRUE]
    /\ UNCHANGED <<ft, spf, dup, lsdb, fl, dj, ls, lc, san, lk, bc, bd, tm>>

\* _flood_lsp, and the return of originate_lsp / handle_lsp: an originated
\* LSP (ttl 16) goes to the neighbors with the seq its payload was built with
MxFlood(t) ==
    /\ mx.pc[t] = "flood"
    /\ mx' = [mx EXCEPT !.pc[t] = "idle", !.calls[t] = mx.calls[t] + 1,
                        !.sent = IF t \in MxOriginators
                                 THEN Append(mx.sent, mx.msg[t]) ELSE mx.sent]
    /\ UNCHANGED <<ft, spf, dup, lsdb, fl, dj, ls, lc, san, lk, bc, bd, tm>>

NextThreads ==
    \/ \E t \in MxOriginators : MxCallOriginate(t)
    \/ \E t \in MxOriginators : MxLoadSeq(t)
    \/ \E t \in MxOriginators : MxStoreSeq(t)
    \/ MxCallHandle(MxReceiver)
    \/ \E t \in MxOriginators : MxApplyOwn(t)
    \/ \E changed \in BOOLEAN : MxApplyReceived(MxReceiver, changed)
    \/ \E t \in MxThreads : MxReadGraph(t)
    \/ \E t \in MxThreads : \E raises \in BOOLEAN : MxRunSpf(t, raises)
    \/ \E t \in MxThreads : MxFlood(t)

\* the threads inside originate_lsp, handle_lsp or _run_spf
MxInside == {t \in MxThreads : mx.pc[t] \notin {"idle", "dead"}}

\* C20: within one LSR node the mutations of the shared routing state are
\* mutually exclusive: at no time are two of the receiver, the LSP timer and
\* the console inside originate_lsp / handle_lsp / _run_spf
C20_MutualExclusion == Cardinality(MxInside) <= 1

\* what the missing lock costs: two originate_lsp calls can read the same
\* self.seq, so that seq falls behind the number of calls that incremented it
MxSeqCountsCalls ==
    (\A t \in MxThreads : mx.pc[t] = "idle") =>
        mx.seq = mx.calls[MxTimer] + mx.calls[MxConsole]

\* C21: every LSP a link-state node originates carries a seq strictly
\* greater than the seq of every LSP it originated before, under any
\* interleaving of the timer thread and the console command lsp
C21_SeqStrictlyIncreasing ==
    \A i, j \in 1..Len(mx.sent) : i < j => mx.sent[i] < mx.sent[j]

\* what the code does guarantee: the seq of an originated LSP is at least 1
\* and at most the number of originate_lsp calls made; a stale read of
\* self.seq can even publish a seq smaller than an earlier one
MxSentAsCoded ==
    \A i \in 1..Len(mx.sent) :
        mx.sent[i] >= 1 /\ mx.sent[i] <= Cardinality(MxOriginators) * MxMaxCalls

\* no thread is inside originate_lsp, handle_lsp or _run_spf, and the process
\* is running
MxQuiet ==
    /\ MxInside = {}
    /\ mx.pc[MxConsole] # "dead"

\* C39: in a link-state node, whenever no originate_lsp, handle_lsp or
\* _run_spf is in progress, the routing table is the result of
\* build_next_hop_table over the current LSDB graph, after any interleaving
\* of the receiver thread, the LSP timer thread and the console command lsp
\* (a slower SPF run never overwrites the table of a newer LSDB state)
C39_TableCurrent == MxQuiet => mx.tab = mx.db

\* what the code does: the table is the solver's result for some state the
\* LSDB was in, and it is the current one when no SPF run raised and a
\* single thread made all the calls
MxTableAsCoded ==
    /\ mx.tab <= mx.db
    /\ (/\ MxQuiet
        /\ ~mx.raised
        /\ Cardinality({t \in MxThreads : mx.calls[t] > 0}) <= 1)
       => mx.tab = mx.db

\* no SPF run raised, and a slower run has overwritten the table of a newer
\* LSDB state
MxStaleOverwrite ==
    /\ MxQuiet
    /\ ~mx.raised
    /\ mx.tab < mx.db

\* ------------------------------------------------------------------------
\* Subsystem BUILD: one call of a packet builder.  A headers argument is a
\* value of the form HeadersGet returns; k = "null" is the omitted argument.
\* ------------------------------------------------------------------------
NoHeaders == [k |-> "null", key |-> "none", items |-> << >>, mid |-> ""]

\* build_packet with any headers argument: normalize_headers(None) is []
build_packet_any(proto, ptype, from_id, to, ttl, h, payload, msg_id) ==
    build_packet(proto, ptype, from_id, to, ttl,
                 IF h.k = "list" THEN normalize_headers_raw(h.items) ELSE << >>,
                 payload, msg_id)

\* build_message of LSR/protocols.py: an array is normalized, a mapping gives
\* its trail, anything else [from_id]
build_message(proto, ptype, from_id, to, ttl, payload, h, msg_id) ==
    build_packet(proto, ptype, from_id, to, ttl,
                 IF h.k = "list" THEN normalize_headers_raw(h.items)
                 ELSE IF h.k = "dict"
                 THEN extract_trail_from_headers_maybe_dict(h)
                 ELSE <<from_id>>,
                 payload, msg_id)

\* new_message with any headers argument: headers or [self_id]
new_message_any(self_id, dest_id, data, proto, ttl, h, msg_id) ==
    build_packet(proto, TYPE_MESSAGE, self_id, dest_id, ttl,
                 IF h.k = "list" /\ h.items # << >> THEN h.items
                 ELSE <<self_id>>,
                 data, msg_id)

\* the message originate_lsp builds: headers = {"ts": now_iso()}
originate_lsp_message(self_id, payload, msg_id) ==
    build_message(PROTO_LSR, TYPE_LSP, self_id, BROADCAST, LSP_TTL, payload,
                  [k |-> "dict", key |-> "none", items |-> << >>, mid |-> ""],
                  msg_id)

\* the calls tried
BdHeaderArgs ==
    {NoHeaders, ListHeaders(<< >>), ListHeaders(<<"B">>),
     ListHeaders(<<"A", "B", "C", "D">>)}
BdCalls ==
    {[fn |-> f, hdr |-> h] : f \in {"build_packet", "new_message"},
                             h \in BdHeaderArgs}
    \cup {[fn |-> "build_message", hdr |-> h] :
            h \in BdHeaderArgs
                  \cup {[k |-> "dict", key |-> "trail", items |-> <<"B">>,
                         mid |-> ""]}}
    \cup {[fn |-> f, hdr |-> NoHeaders] : f \in {"new_hello", "originate_lsp"}}

BdIdle ==
    [call |-> [fn |-> "new_hello", hdr |-> NoHeaders], from |-> "A",
     out |-> << >>, pc |-> "idle"]

\* the packet the call returns
BdResult(call, from_id) ==
    CASE call.fn = "build_packet" ->
            build_packet_any(PROTO_DIJKSTRA, TYPE_MESSAGE, from_id, "E", 5,
                             call.hdr, "hello", GenIds[1])
      [] call.fn = "build_message" ->
            build_message(PROTO_LSR, TYPE_MESSAGE, from_id, "E", 5, "hello",
                          call.hdr, GenIds[1])
      [] call.fn = "new_message" ->
            new_message_any(from_id, "E", "hello", PROTO_LSR, 5, call.hdr,
                            GenIds[1])
      [] call.fn = "new_hello" ->
            new_hello(from_id, PROTO_LSR, HELLO_TTL, GenIds[1])
      [] OTHER ->
            originate_lsp_message(from_id, EmptyPayload, GenIds[1])

BdBuild ==
    /\ bd.pc = "ready"
    /\ bd' = [bd EXCEPT !.out = <<BdResult(bd.call, bd.from)>>, !.pc = "done"]
    /\ UNCHANGED <<ft, spf, dup, lsdb, fl, dj, ls, lc, san, lk, bc, mx, tm>>

NextBuild == BdBuild

\* a builder was called without headers
BdOmitted == bd.pc = "done" /\ bd.call.hdr = NoHeaders

\* C28: the packet builder called without headers produces headers = [from];
\* every packet a node originates (hello, message, the LSP of originate_lsp)
\* leaves the builder with headers = [own id]
C28_DefaultHeaders ==
    BdOmitted => bd.out[1].headers = <<bd.from>>

\* what the code does: build_message, new_message and new_hello give [from];
\* build_packet called without headers gives the empty list, and so does the
\* LSP of originate_lsp, whose headers argument is the mapping {ts}
BdDefaultAsCoded ==
    BdOmitted =>
        bd.out[1].headers = IF bd.call.fn \in {"build_packet", "originate_lsp"}
                            THEN << >> ELSE <<bd.from>>

\* ------------------------------------------------------------------------
\* Subsystem TIMERS: the _hello_loop and _lsp_loop threads of one node with
\* two neighbors, its _shutdown, and publishes that raise
\* ------------------------------------------------------------------------
TmEngines == {"flooding", "dijkstra", "lsr"}

\* self.neighbors, in the order the loops serve them
TmNbrs == <<"B", "C">>

\* ticks of a loop, and publishes that raise
TmMaxTicks == 2
TmMaxFail == 1

TmIdleOf(engine, full) ==
    [engine |-> engine, full |-> full,
     hello_stop |-> FALSE, lsp_stop |-> FALSE,
     hpc |-> IF engine = "flooding" THEN "sleep" ELSE "check",
     hi |-> 1, htick |-> 1,
     lpc |-> IF engine = "lsr" THEN "sleep" ELSE "none",
     ltick |-> 0, lwoke |-> FALSE,
     spc |-> "run", fails |-> 0, out |-> {}, failed |-> {}]

TmIdle == TmIdleOf("lsr", FALSE)

\* Flooding _hello_loop: time.sleep(1.0) before the loop
TmHelloStart ==
    /\ tm.hpc = "sleep"
    /\ tm' = [tm EXCEPT !.hpc = "check"]
    /\ UNCHANGED <<ft, spf, dup, lsdb, fl, dj, ls, lc, san, lk, bc, mx, bd>>

\* while not self._hello_stop.is_set(): pkt = new_hello(...)
TmHelloCheck ==
    /\ tm.hpc = "check"
    /\ tm' = [tm EXCEPT !.hpc = IF tm.hello_stop THEN "exit" ELSE "send",
                        !.hi = 1]
    /\ UNCHANGED <<ft, spf, dup, lsdb, fl, dj, ls, lc, san, lk, bc, mx, bd>>

\* the position of _hello_loop after the publish to neighbor number i
TmAfterSend(i) == IF i = Len(TmNbrs) THEN "wait" ELSE "send"

\* one publish of the hello; raises = the transport raised.  Only the
\* send_direct of the link-state node catches the exception; in the other
\* two it leaves _hello_loop and the thread ends
TmHelloSend(raises) ==
    /\ tm.hpc = "send"
    /\ raises => tm.fails < TmMaxFail
    /\ tm' = [tm EXCEPT
                !.out = IF raises THEN tm.out
                        ELSE tm.out \cup {[kind |-> "hello", to |-> TmNbrs[tm.hi],
                                           tick |-> tm.htick, stale |-> FALSE]},
                !.failed = IF raises
                           THEN tm.failed \cup {[kind |-> "hello",
                                                 to |-> TmNbrs[tm.hi],
                                                 tick |-> tm.htick]}
                           ELSE tm.failed,
                !.fails = tm.fails + (IF raises THEN 1 ELSE 0),
                !.hpc = IF raises /\ tm.engine # "lsr" THEN "dead"
                        ELSE TmAfterSend(tm.hi),
                !.hi = IF tm.hi = Len(TmNbrs) THEN 1 ELSE tm.hi + 1]
    /\ UNCHANGED <<ft, spf, dup, lsdb, fl, dj, ls, lc, san, lk, bc, mx, bd>>

\* self._hello_stop.wait(hello_interval) returns
TmHelloWake ==
    /\ tm.hpc = "wait"
    /\ tm.htick < TmMaxTicks
    /\ tm' = [tm EXCEPT !.hpc = "check", !.htick = tm.htick + 1]
    /\ UNCHANGED <<ft, spf, dup, lsdb, fl, dj, ls, lc, san, lk, bc, mx, bd>>

\* one call of originate_lsp by _lsp_loop: the KeyError of the SPF run ends
\* the thread; otherwise _flood_lsp serves every neighbor, and a publish
\* that raises (to neighbor f) is caught by send_direct
TmOriginate(f, stale) ==
    IF ~tm.full
    THEN [tm EXCEPT !.lpc = "dead", !.ltick = tm.ltick + 1]
    ELSE [tm EXCEPT
            !.lpc = "check",
            !.ltick = tm.ltick + 1,
            !.out = tm.out \cup {[kind |-> "lsp", to |-> TmNbrs[i],
                                  tick |-> tm.ltick + 1, stale |-> stale] :
                                 i \in {j \in 1..Len(TmNbrs) : TmNbrs[j] # f}},
            !.failed = IF f = None THEN tm.failed
                       ELSE tm.failed \cup {[kind |-> "lsp", to |-> f,
                                             tick |-> tm.ltick + 1]},
            !.fails = tm.fails + (IF f = None THEN 0 ELSE 1)]

\* whom a publish of the flood may fail for
TmFailChoices ==
    {None} \cup (IF tm.fails < TmMaxFail /\ tm.full
                 THEN {TmNbrs[i] : i \in 1..Len(TmNbrs)} ELSE {})

\* _lsp_loop: time.sleep(0.5); self.router.originate_lsp()
TmLspFirst(f) ==
    /\ tm.lpc = "sleep"
    /\ f \in TmFailChoices
    /\ tm' = TmOriginate(f, tm.lsp_stop)
    /\ UNCHANGED <<ft, spf, dup, lsdb, fl, dj, ls, lc, san, lk, bc, mx, bd>>

\* while not self._lsp_stop.is_set():
TmLspCheck ==
    /\ tm.lpc = "check"
    /\ tm' = [tm EXCEPT !.lpc = IF tm.lsp_stop THEN "exit" ELSE "wait"]
    /\ UNCHANGED <<ft, spf, dup, lsdb, fl, dj, ls, lc, san, lk, bc, mx, bd>>

\* self._lsp_stop.wait(lsp_interval) returns
TmLspWake ==
    /\ tm.lpc = "wait"
    /\ tm.ltick < TmMaxTicks
    /\ tm' = [tm EXCEPT !.lpc = "recheck", !.lwoke = tm.lsp_stop]
    /\ UNCHANGED <<ft, spf, dup, lsdb, fl, dj, ls, lc, san, lk, bc, mx, bd>>

\* if self._lsp_stop.is_set(): break; self.router.originate_lsp()
TmLspRecheck(f) ==
    /\ tm.lpc = "recheck"
    /\ f \in TmFailChoices
    /\ tm' = IF tm.lsp_stop THEN [tm EXCEPT !.lpc = "exit"]
             ELSE TmOriginate(f, tm.lwoke)
    /\ f # None => ~tm.lsp_stop
    /\ UNCHANGED <<ft, spf, dup, lsdb, fl, dj, ls, lc, san, lk, bc, mx, bd>>

\* _shutdown: self._hello_stop.set()
TmShutdownHello ==
    /\ tm.spc = "run"
    /\ tm' = [tm EXCEPT !.hello_stop = TRUE,
                        !.spc = IF tm.engine = "lsr" THEN "half" ELSE "down"]
    /\ UNCHANGED <<ft, spf, dup, lsdb, fl, dj, ls, lc, san, lk, bc, mx, bd>>

\* _shutdown of the link-state node: self._lsp_stop.set()
TmShutdownLsp ==
    /\ tm.spc = "half"
    /\ tm' = [tm EXCEPT !.lsp_stop = TRUE, !.spc = "down"]
    /\ UNCHANGED <<ft, spf, dup, lsdb, fl, dj, ls, lc, san, lk, bc, mx, bd>>

NextTimers ==
    \/ TmHelloStart
    \/ TmHelloCheck
    \/ \E raises \in BOOLEAN : TmHelloSend(raises)
    \/ TmHelloWake
    \/ \E f \in {None, "B", "C"} : TmLspFirst(f)
    \/ TmLspCheck
    \/ TmLspWake
    \/ \E f \in {None, "B", "C"} : TmLspRecheck(f)
    \/ TmShutdownHello
    \/ TmShutdownLsp

\* C33: once shutdown has set the stop flag, every timer loop checks the
\* flag at its next wake and exits: no hello and no LSP is emitted in a tick
\* for which the loop woke after the flag was set, also when the shutdown
\* falls into the startup delay of the LSP loop
C33_StopHonoured == \A e \in tm.out : ~e.stale

\* what the code does: the loops check the flag at every wake but one; the
\* first originate_lsp of _lsp_loop follows the startup delay unchecked
TmStopAsCoded ==
    \A e \in tm.out : e.stale => e.kind = "lsp" /\ e.tick = 1

\* the neighbors served in tick k of the loop emitting `kind`
TmServed(kind, k) == {e.to : e \in {x \in tm.out : x.kind = kind /\ x.tick = k}}

\* the loop emitting `kind` has finished its tick k
TmTickDone(kind, k) ==
    IF kind = "hello"
    THEN tm.htick > k \/ (tm.htick = k /\ tm.hpc \in {"wait", "check", "exit"})
    ELSE tm.ltick >= k

\* the thread of the loop emitting `kind` has ended by an exception
TmDead(kind) == IF kind = "hello" THEN tm.hpc = "dead" ELSE tm.lpc = "dead"

\* C34: a publish that raises inside a timer tick does not stop the node:
\* the remaining neighbors of that tick are still served and the loop goes
\* on to its next tick (hello loop of every node, LSP loop of the
\* link-state node)
C34_PublishFailureSurvived ==
    \A f \in tm.failed :
        /\ ~TmDead(f.kind)
        /\ TmTickDone(f.kind, f.tick) =>
              TmServed(f.kind, f.tick) =
                 {TmNbrs[i] : i \in 1..Len(TmNbrs)} \ {f.to}

\* what the code does: the link-state node is as stated; in the flooding and
\* static-SPF nodes the exception ends the hello thread, the neighbors after
\* the failed one are not served and there is no further tick
TmFailureAsCoded ==
    \A f \in tm.failed :
        IF tm.engine = "lsr"
        THEN /\ ~TmDead(f.kind)
             /\ TmTickDone(f.kind, f.tick) =>
                   TmServed(f.kind, f.tick) =
                      {TmNbrs[i] : i \in 1..Len(TmNbrs)} \ {f.to}
        ELSE /\ f.kind = "hello"
             /\ tm.hpc = "dead"
             /\ tm.htick = f.tick
             /\ \A i \in 1..Len(TmNbrs) :
                   TmNbrs[i] \in TmServed("hello", f.tick) =>
                      \E j \in (i + 1)..Len(TmNbrs) : TmNbrs[j] = f.to

\* ------------------------------------------------------------------------
\* Specifications
\* ------------------------------------------------------------------------
\* forward_transform applied to an arbitrary sanitized packet
InitSpecFT ==
    /\ tm = TmIdle
    /\ bd = BdIdle
    /\ mx = MxIdle
    /\ bc = BcIdle
    /\ lk = LkIdle
    /\ san = SanIdle
    /\ lc = LcIdle
    /\ ft \in [pkt : FtPackets, self : FtNodes, out : {<< >>}, pc : {"ready"}]
    /\ spf = SpfIdle
    /\ dup = DupIdle
    /\ lsdb = LsdbIdle
    /\ fl = FlIdle
    /\ dj = DjIdle
    /\ ls = LsIdle

SpecFT == InitSpecFT /\ [][NextFT]_vars

\* a node loads a topology and computes its routing table
InitSpecSPF ==
    /\ tm = TmIdle
    /\ bd = BdIdle
    /\ mx = MxIdle
    /\ bc = BcIdle
    /\ lk = LkIdle
    /\ san = SanIdle
    /\ lc = LcIdle
    /\ ft = FtIdle
    /\ dup = DupIdle
    /\ lsdb = LsdbIdle
    /\ fl = FlIdle
    /\ dj = DjIdle
    /\ ls = LsIdle
    /\ \E g \in SpfGraphs : \E s \in DOMAIN g : \E m \in {"hop", "rtt"} :
          spf = [G |-> g, src |-> s, metric |-> m, node |-> SpfIdleNode,
                 tab |-> SpfIdleTab, pc |-> "ready"]

SpecSPF == InitSpecSPF /\ [][NextSPF]_vars

\* add_if_new calls on both duplicate filters while time passes
InitSpecDUP ==
    /\ tm = TmIdle
    /\ bd = BdIdle
    /\ mx = MxIdle
    /\ bc = BcIdle
    /\ lk = LkIdle
    /\ san = SanIdle
    /\ lc = LcIdle
    /\ ft = FtIdle
    /\ spf = SpfIdle
    /\ dup = DupIdle
    /\ lsdb = LsdbIdle
    /\ fl = FlIdle
    /\ dj = DjIdle
    /\ ls = LsIdle

SpecDUP == InitSpecDUP /\ [][NextDUP]_vars

\* apply_lsp calls and age-outs of one LSDB while time passes
InitSpecLSDB ==
    /\ tm = TmIdle
    /\ bd = BdIdle
    /\ mx = MxIdle
    /\ bc = BcIdle
    /\ lk = LkIdle
    /\ san = SanIdle
    /\ lc = LcIdle
    /\ ft = FtIdle
    /\ spf = SpfIdle
    /\ dup = DupIdle
    /\ lsdb = LsdbIdle
    /\ fl = FlIdle
    /\ dj = DjIdle
    /\ ls = LsIdle

SpecLSDB == InitSpecLSDB /\ [][NextLSDB]_vars

\* the flooding network: any of the topologies, all nodes started with the
\* same --ttl
InitSpecFlood ==
    /\ tm = TmIdle
    /\ bd = BdIdle
    /\ mx = MxIdle
    /\ bc = BcIdle
    /\ lk = LkIdle
    /\ san = SanIdle
    /\ lc = LcIdle
    /\ ft = FtIdle
    /\ spf = SpfIdle
    /\ dup = DupIdle
    /\ lsdb = LsdbIdle
    /\ dj = DjIdle
    /\ ls = LsIdle
    /\ \E topo \in FlTopologies : \E ttl \in FlTtls : fl = FlIdleNet(topo, ttl)

SpecFlood == InitSpecFlood /\ [][NextFlood]_vars

SpecFloodAny == InitSpecFlood /\ [][NextFloodAny]_vars

SpecFloodAnon == InitSpecFlood /\ [][NextFloodAnon]_vars

\* the flood with the sender's publishes one at a time
InitSpecFloodStep ==
    /\ tm = TmIdle
    /\ bd = BdIdle
    /\ mx = MxIdle
    /\ bc = BcIdle
    /\ lk = LkIdle
    /\ san = SanIdle
    /\ lc = LcIdle
    /\ ft = FtIdle
    /\ spf = SpfIdle
    /\ dup = DupIdle
    /\ lsdb = LsdbIdle
    /\ dj = DjIdle
    /\ ls = LsIdle
    /\ \E topo \in FlStepTopologies : \E ttl \in FlStepTtls :
          fl = FlIdleNet(topo, ttl)

SpecFloodStep == InitSpecFloodStep /\ [][NextFloodStep]_vars

\* the same with a packet carrying a longer trail on the bus
SpecFloodTrail == InitSpecFloodStep /\ [][NextFloodTrail]_vars

\* the same network with a bus that hands every published packet to its node
SpecFloodFair ==
    InitSpecFlood /\ [][NextFlood]_vars
                  /\ \A n \in Nodes : WF_vars(FlReceive(n))

\* the static-SPF network: any of the topologies, either metric, all nodes
\* started with the same --ttl; the bus hands every published packet over
InitSpecDijk ==
    /\ tm = TmIdle
    /\ bd = BdIdle
    /\ mx = MxIdle
    /\ bc = BcIdle
    /\ lk = LkIdle
    /\ san = SanIdle
    /\ lc = LcIdle
    /\ ft = FtIdle
    /\ spf = SpfIdle
    /\ dup = DupIdle
    /\ lsdb = LsdbIdle
    /\ fl = FlIdle
    /\ \E G \in DjGraphs : \E metric \in {"hop", "rtt"} : \E ttl \in DjTtls :
          dj = DjIdleNet(G, metric, ttl)
    /\ ls = LsIdle

SpecDijk == InitSpecDijk /\ [][NextDijk]_vars

SpecDijkAny == InitSpecDijk /\ [][NextDijkAny]_vars

SpecDijkFair ==
    InitSpecDijk /\ [][NextDijk]_vars
                 /\ \A n \in Nodes : WF_vars(DjReceive(n))

\* the link-state network relaying one data message, any of the topologies
InitSpecLsr ==
    /\ tm = TmIdle
    /\ bd = BdIdle
    /\ mx = MxIdle
    /\ bc = BcIdle
    /\ lk = LkIdle
    /\ san = SanIdle
    /\ lc = LcIdle
    /\ ft = FtIdle
    /\ spf = SpfIdle
    /\ dup = DupIdle
    /\ lsdb = LsdbIdle
    /\ fl = FlIdle
    /\ dj = DjIdle
    /\ \E topo \in FlTopologies : ls = LsIdleNet(topo)

SpecLsr == InitSpecLsr /\ [][NextLsr]_vars

\* the three networks side by side, each on the line or on the ring
InitSpecHello ==
    /\ tm = TmIdle
    /\ bd = BdIdle
    /\ mx = MxIdle
    /\ bc = BcIdle
    /\ lk = LkIdle
    /\ san = SanIdle
    /\ lc = LcIdle
    /\ ft = FtIdle
    /\ spf = SpfIdle
    /\ dup = DupIdle
    /\ lsdb = LsdbIdle
    /\ \E topo \in {LineTopo, RingTopo} :
          /\ fl = FlIdleNet(topo, FLOOD_DEFAULT_TTL)
          /\ ls = LsIdleNet(topo)
    /\ \E metric \in {"hop", "rtt"} :
          dj = DjIdleNet(ensure_undirected(LineCfg), metric, DIJKSTRA_DEFAULT_TTL)

SpecHello == InitSpecHello /\ [][NextHello]_vars

\* link-state control plane
InitSpecLsrCtl ==
    /\ tm = TmIdle
    /\ bd = BdIdle
    /\ mx = MxIdle
    /\ bc = BcIdle
    /\ lk = LkIdle
    /\ san = SanIdle
    /\ ft = FtIdle
    /\ spf = SpfIdle
    /\ dup = DupIdle
    /\ lsdb = LsdbIdle
    /\ fl = FlIdle
    /\ dj = DjIdle
    /\ ls = LsIdle
    /\ lc = [now |-> 0,
             up |-> [n \in LcNodes |-> TRUE],
             timer |-> [n \in LcNodes |-> "run"],
             fired |-> [n \in LcNodes |-> FALSE],
             seq |-> [n \in LcNodes |-> 0],
             db |-> [n \in LcNodes |-> << >>],
             next_hop |-> [n \in LcNodes |-> << >>],
             dist |-> [n \in LcNodes |-> << >>],
             seen |-> [n \in LcNodes |-> << >>],
             inbox |-> [n \in LcNodes |-> << >>],
             peer |-> 0,
             rp |-> 0,
             hnd |-> [n \in LcNodes |-> {}],
             rep |-> [n \in LcNodes |-> {}],
             ev |-> LcNoEvent]

SpecLsrCtl == InitSpecLsrCtl /\ [][NextLsrCtl]_vars

\* the control plane with a peer that repeats advertisements
SpecLsrCtlAny == InitSpecLsrCtl /\ [][NextLsrCtlAny]_vars

\* receive prologue on raw inputs
InitSpecSan ==
    /\ tm = TmIdle
    /\ bd = BdIdle
    /\ mx = MxIdle
    /\ bc = BcIdle
    /\ lk = LkIdle
    /\ ft = FtIdle
    /\ spf = SpfIdle
    /\ dup = DupIdle
    /\ lsdb = LsdbIdle
    /\ fl = FlIdle
    /\ dj = DjIdle
    /\ ls = LsIdle
    /\ lc = LcIdle
    /\ san \in [raw : SanRaws, dj : {<< >>}, djrx : {<< >>}, lsr : {<< >>},
                dj2 : {<< >>}, lsr2 : {<< >>}, pc : {"ready"}]

SpecSan == InitSpecSan /\ [][NextSan]_vars

\* one advertisement in its wire forms
InitSpecLinks ==
    /\ tm = TmIdle
    /\ bd = BdIdle
    /\ mx = MxIdle
    /\ bc = BcIdle
    /\ ft = FtIdle
    /\ spf = SpfIdle
    /\ dup = DupIdle
    /\ lsdb = LsdbIdle
    /\ fl = FlIdle
    /\ dj = DjIdle
    /\ ls = LsIdle
    /\ lc = LcIdle
    /\ san = SanIdle
    /\ lk \in [origin : LkOrigins, seq : LkSeqs, m : LkLinkMaps,
               prior : {<< >>, <<1>>}, now : LkTimes,
               stored : {[f \in LkForms |-> << >>]}, pc : {"ready"}]

SpecLinks == InitSpecLinks /\ [][NextLinks]_vars

\* one broadcast of a flooding node
InitSpecBcast ==
    /\ tm = TmIdle
    /\ bd = BdIdle
    /\ mx = MxIdle
    /\ ft = FtIdle
    /\ spf = SpfIdle
    /\ dup = DupIdle
    /\ lsdb = LsdbIdle
    /\ fl = FlIdle
    /\ dj = DjIdle
    /\ ls = LsIdle
    /\ lc = LcIdle
    /\ san = SanIdle
    /\ lk = LkIdle
    /\ bc \in [neighbors : BcNeighborLists, channel_map : BcChannelMaps,
               exclude : {None, "B"}, published : {<< >>}, pc : {"ready"}]

SpecBcast == InitSpecBcast /\ [][NextBcast]_vars

\* the threads of one LSR node
InitSpecThreads ==
    /\ tm = TmIdle
    /\ bd = BdIdle
    /\ ft = FtIdle
    /\ spf = SpfIdle
    /\ dup = DupIdle
    /\ lsdb = LsdbIdle
    /\ fl = FlIdle
    /\ dj = DjIdle
    /\ ls = LsIdle
    /\ lc = LcIdle
    /\ san = SanIdle
    /\ lk = LkIdle
    /\ bc = BcIdle
    /\ mx = [pc |-> [t \in MxThreads |-> "idle"],
             reg |-> [t \in MxThreads |-> 0],
             seq |-> 0, own |-> 0,
             calls |-> [t \in MxThreads |-> 0],
             msg |-> [t \in MxThreads |-> 0],
             sent |-> << >>,
             db |-> 0, g |-> [t \in MxThreads |-> 0], tab |-> 0,
             raised |-> FALSE]

SpecThreads == InitSpecThreads /\ [][NextThreads]_vars

\* one call of a packet builder by any node
InitSpecBuild ==
    /\ tm = TmIdle
    /\ ft = FtIdle
    /\ spf = SpfIdle
    /\ dup = DupIdle
    /\ lsdb = LsdbIdle
    /\ fl = FlIdle
    /\ dj = DjIdle
    /\ ls = LsIdle
    /\ lc = LcIdle
    /\ san = SanIdle
    /\ lk = LkIdle
    /\ bc = BcIdle
    /\ mx = MxIdle
    /\ bd \in [call : BdCalls, from : Nodes, out : {<< >>}, pc : {"ready"}]

SpecBuild == InitSpecBuild /\ [][NextBuild]_vars

\* the timer threads and the shutdown of one node of any engine
InitSpecTimers ==
    /\ ft = FtIdle
    /\ spf = SpfIdle
    /\ dup = DupIdle
    /\ lsdb = LsdbIdle
    /\ fl = FlIdle
    /\ dj = DjIdle
    /\ ls = LsIdle
    /\ lc = LcIdle
    /\ san = SanIdle
    /\ lk = LkIdle
    /\ bc = BcIdle
    /\ mx = MxIdle
    /\ bd = BdIdle
    /\ \E engine \in TmEngines : \E full \in BOOLEAN :
          /\ engine # "lsr" => ~full
          /\ tm = TmIdleOf(engine, full)

SpecTimers == InitSpecTimers /\ [][NextTimers]_vars

====
